---- MODULE Spec2Model ----
(***************************************************************************)
(* A model of the durable execution scheduler of adiadia/agent-runtime:    *)
(* the run repository (CreateRun, CancelRun, ApproveRun), the worker's     *)
(* claim transaction and its succeed / retry-or-fail commits, over the     *)
(* relations runs, steps, events and run_requests.                         *)
(*                                                                         *)
(* Every handler is one database transaction.  A transaction is one action *)
(* of the model, except where the code lets other transactions in between  *)
(* its statements in a way that matters: the claim transaction (gate       *)
(* count, row-locking select, update and commit) and CreateRun (the        *)
(* idempotency lookup, then the part serialised by the api_keys row lock). *)
(* NOW() is PostgreSQL's transaction start time.  The clock's unit is      *)
(* coarse next to a transaction: no transaction stays open across a tick,  *)
(* so NOW() is the clock's value throughout a transaction.                 *)
(***************************************************************************)
EXTENDS Integers, Sequences, FiniteSets, TLC

VARIABLES
    now,            \* the database clock, in coarse units
    api_keys,       \* tenant -> [max_concurrent_runs]
    templates,      \* workflow_templates/workflow_template_steps: name -> <<step names>>
    runs,           \* run id -> row of runs
    steps,          \* run id -> the run's rows of steps, in insertion order
    events,         \* the events relation, in seq order
    run_requests,   \* rows of run_requests
    calls,          \* the CreateRun calls in flight or returned
    wcfg,           \* worker -> its configuration (worker.New)
    wpc,            \* worker -> where it is in ProcessOnce
    wheld,          \* worker -> the claimedStep it holds, and its open transaction
    resp,           \* what the last call of GetRun, ListSteps, GetRunCost, CancelRun or ApproveRun returned
    whook,          \* worker -> the terminal webhook it is delivering
    posts,          \* the POST requests sent to webhook targets, in order
    wtx,            \* worker -> seq of the event its open retry-or-fail transaction inserted
    stream,         \* one connection of GET /runs/{id}/events: its cursor and the seqs it wrote
    schema          \* schema_migrations, the advisory lock and the processes running EnsureSchema

vars == <<now, api_keys, templates, runs, steps, events, run_requests, calls, wcfg, wpc, wheld, resp,
          whook, posts, wtx, stream, schema>>

----------------------------------------------------------------------------
(* Bounds of the model *)

MaxTime == 3

(* The CreateRun calls and the workers of a specification are those its initial *)
(* state names; a call creates at most one run, so run ids are drawn from the   *)
(* call ids.                                                                    *)
Calls == DOMAIN calls
Workers == DOMAIN wcfg
RunIds == DOMAIN calls

----------------------------------------------------------------------------
(* Domain constants *)

NULL == 0 - 1
NoKey == "none"
NoStep == 0
NoRun == 0
NoSeq == 0

RunPending == "PENDING"
RunRunning == "RUNNING"
RunWaiting == "WAITING_APPROVAL"
RunSuccess == "SUCCEEDED"
RunFailed == "FAILED"
RunCanceled == "CANCELED"

StepPending == "PENDING"
StepRunning == "RUNNING"
StepWaiting == "WAITING_APPROVAL"
StepSuccess == "SUCCEEDED"
StepFailed == "FAILED"
StepCanceled == "CANCELED"

StepLLM == "LLM"
StepTool == "TOOL"
StepApproval == "APPROVAL"

DefaultMaxConcurrentRuns == 5
defaultWorkflowTemplateName == "default"

TerminalRunStatuses == {RunCanceled, RunSuccess, RunFailed}

ErrMaxConcurrentRunsExceeded == "limit-exceeded"
ErrWorkflowTemplateNotFound == "template-not-found"
ErrNoRows == "no rows in result set"
ErrStorage == "storage error"

(* The template seeded by the first migration. *)
DefaultTemplate == <<StepLLM, StepTool, StepApproval>>

----------------------------------------------------------------------------
(* Rows *)

(* INSERT INTO steps (id, run_id, name, status, timeout_seconds): the other  *)
(* columns take their defaults, created_at DEFAULT NOW().                    *)
NewStep(name, txnow) ==
    [name |-> name, status |-> StepPending, attempts |-> 0,
     created_at |-> txnow, started_at |-> NULL, next_run_at |-> NULL, cost_usd |-> 0,
     timeout_seconds |-> NULL]

(* INSERT INTO runs (id, api_key_id, status, webhook_url, priority) *)
NewRun(tenant, priority, webhookURL) ==
    [api_key_id |-> tenant, status |-> RunPending, priority |-> priority,
     webhook_url |-> webhookURL, total_cost_usd |-> 0]

(* insertStepEvent and the run-level INSERT INTO events; seq is the position. *)
Event(type, r, i) == [type |-> type, run_id |-> r, step |-> i, previous |-> ""]

(* A claim that records its event under another type. *)
ClaimedEvent_Retyped(r, i, previous) ==
    [type |-> "STEP_STARTED", run_id |-> r, step |-> i, previous |-> previous]

(* The STEP_CLAIMED event, whose payload carries the status the claim query saw. *)
ClaimedEvent(r, i, previous) ==
    [type |-> "STEP_CLAIMED", run_id |-> r, step |-> i, previous |-> previous]

StepIdx(r) == DOMAIN steps[r]

(* The rows of steps, each named by its run and its position in the run. *)
StepRows == UNION {{<<r, i>> : i \in StepIdx(r)} : r \in DOMAIN runs}

SetStep(r, i, row) == [steps EXCEPT ![r][i] = row]

----------------------------------------------------------------------------
(* Initial state: a migrated, empty store, idle workers, no call made yet. *)

(* A call's record: its parameters, where it stands, and what it returned; ret  *)
(* names the return statement taken: "found" (run_repo.go 70), "limit" (116),   *)
(* "template" (131), "winner" (181), "created" (201).                           *)
NewCall ==
    [pc |-> "new", tenant |-> "", key |-> NoKey, template |-> "", priority |-> 0,
     webhook |-> "", ok |-> FALSE, run |-> NoRun, err |-> "", ret |-> "", failed_at |-> 0]

NoHeld == [run |-> NoRun, step |-> NoStep, name |-> "", status |-> ""]

(* A repository call's return: the error ("" is nil) and the value returned. *)
Resp(op, tenant, r, err, body) ==
    [op |-> op, tenant |-> tenant, run |-> r, err |-> err, body |-> body]

NoResp == Resp("", "", NoRun, "", <<>>)

(* The arguments of a deliverTerminalWebhook call in progress and the number   *)
(* of the POST attempt its loop is at.                                         *)
Hook(r, status, attempt) == [run |-> r, status |-> status, attempt |-> attempt]

NoHook == Hook(NoRun, "", 0)

(* The processes that run EnsureSchema at start-up. *)
BootProcs == 2

(* How often a process is started. *)
BootRuns == 2

NoProc == 0

(* An empty database: no schema_migrations row, the advisory lock free, no    *)
(* process started.  log lists the migrations in the order they were applied. *)
NewSchema ==
    [recorded |-> {}, log |-> <<>>, lock |-> NoProc,
     procs |-> [p \in 1..BootProcs |->
                  [pc |-> "off", idx |-> 0, runs |-> 0, applied |-> 0, err |-> FALSE,
                   bootstrapped |-> FALSE]]]

InitStore(keys, tpls, cfgs, ncalls) ==
    /\ now = 0
    /\ api_keys = keys
    /\ templates = tpls
    /\ runs = <<>>
    /\ steps = <<>>
    /\ events = <<>>
    /\ run_requests = {}
    /\ calls = [c \in 1..ncalls |-> NewCall]
    /\ wcfg = cfgs
    /\ wpc = [w \in DOMAIN cfgs |-> "idle"]
    /\ wheld = [w \in DOMAIN cfgs |-> NoHeld]
    /\ resp = NoResp
    /\ whook = [w \in DOMAIN cfgs |-> NoHook]
    /\ posts = <<>>
    /\ wtx = [w \in DOMAIN cfgs |-> NoSeq]
    /\ stream = [cursor |-> NoSeq, sent |-> <<>>]
    /\ schema = NewSchema

(* The clock advances between transactions. *)
Tick ==
    /\ now < MaxTime
    /\ \A c \in Calls : calls[c].pc # "tx"
    /\ \A w \in Workers : wpc[w] \notin {"gated", "locked", "failing"}
    /\ now' = now + 1
    /\ UNCHANGED <<api_keys, templates, runs, steps, events, run_requests, calls, wcfg, wpc, wheld, resp, whook, posts, wtx, stream, schema>>

----------------------------------------------------------------------------
(* RunRepository.CreateRun *)

(* A lookup that finds no binding. *)
RequestRuns_None(tenant, key) == {}

(* SELECT run_id FROM run_requests WHERE api_key_id=$1 AND idempotency_key=$2 *)
RequestRuns(tenant, key) ==
    {rr.run_id : rr \in {x \in run_requests : x.api_key_id = tenant /\ x.idempotency_key = key}}

(* The ceiling read from api_keys, with the default applied when it is <= 0. *)
MaxConcurrentRuns(tenant) ==
    IF api_keys[tenant].max_concurrent_runs <= 0
    THEN DefaultMaxConcurrentRuns
    ELSE api_keys[tenant].max_concurrent_runs

(* count of runs WHERE api_key_id=$1 AND status IN (RUNNING, WAITING_APPROVAL) *)
ActiveRuns(tenant) ==
    Cardinality({r \in DOMAIN runs :
        runs[r].api_key_id = tenant /\ runs[r].status \in {RunRunning, RunWaiting}})

(* templateName = TrimSpace(params.TemplateName), "default" when empty *)
TemplateName(name) == IF name = "" THEN defaultWorkflowTemplateName ELSE name

(* loadWorkflowTemplateSteps: the step names by position; no rows is pgx.ErrNoRows *)
TemplateFound(name) == name \in DOMAIN templates /\ Len(templates[name]) > 0

(* uuid.New(): an id no row has *)
FreshRunId == CHOOSE r \in RunIds : r \notin DOMAIN runs

(* pool.Begin and the idempotency lookup (run_repo.go 55-80). *)
CreateRunBegin(c, tenant, key, template, priority, webhookURL) ==
    /\ calls[c].pc = "new"
    /\ IF key # NoKey /\ RequestRuns(tenant, key) # {}
       THEN calls' = [calls EXCEPT ![c] =
                [@ EXCEPT !.pc = "done", !.tenant = tenant, !.key = key,
                          !.template = TemplateName(template), !.priority = priority,
                          !.webhook = webhookURL, !.ok = TRUE, !.ret = "found",
                          !.run = CHOOSE r \in RequestRuns(tenant, key) : TRUE]]
       ELSE calls' = [calls EXCEPT ![c] =
                [@ EXCEPT !.pc = "tx", !.tenant = tenant, !.key = key,
                          !.template = TemplateName(template), !.priority = priority,
                          !.webhook = webhookURL]]
    /\ UNCHANGED <<now, api_keys, templates, runs, steps, events, run_requests, wcfg, wpc, wheld, resp, whook, posts, wtx, stream, schema>>

(* A run_requests table without the unique constraint. *)
UniqueViolation_Never(tenant, key) == FALSE

(* INSERT INTO run_requests fails on UNIQUE (api_key_id, idempotency_key) when  *)
(* a committed row holds the tenant and key.                                   *)
UniqueViolation(tenant, key) == key # NoKey /\ RequestRuns(tenant, key) # {}

(* workflow_template_steps.timeout_seconds, in seconds: NULL in the seeded     *)
(* template (001_init.sql 81-93); the template "timed" stores 1 for its first  *)
(* step and 0 for its second.                                                  *)
TemplateTimeouts == [timed |-> <<1, 0>>]

TimeoutSeconds(template, i) ==
    IF template \in DOMAIN TemplateTimeouts THEN TemplateTimeouts[template][i] ELSE NULL

(* The rows CreateRun inserts for run id r: the run and one step per template  *)
(* position, every step with created_at = NOW() of the one transaction.        *)
InsertedSteps(template, txnow) ==
    [i \in 1..Len(templates[template]) |->
        [NewStep(templates[template][i], txnow) EXCEPT !.timeout_seconds = TimeoutSeconds(template, i)]]

(* A failed transaction that keeps what it wrote. *)
RolledBack_Kept(before, written) == written

(* defer tx.Rollback(ctx) (run_repo.go 60): a return without commit undoes     *)
(* what the transaction wrote.                                                 *)
RolledBack(before, written) == before

(* From SELECT ... FOR UPDATE on the tenant's api_keys row to the commit       *)
(* (run_repo.go 82-202).  The row lock serialises this part among the calls of *)
(* one tenant; a failure rolls the transaction back.                           *)
CreateRunCommit(c) ==
    LET call == calls[c]
        r == FreshRunId
        Return(ok, run, err, ret) ==
            calls' = [calls EXCEPT ![c] =
                [@ EXCEPT !.pc = "done", !.ok = ok, !.run = run, !.err = err, !.ret = ret]]
    IN
    /\ call.pc = "tx"
    /\ IF ActiveRuns(call.tenant) >= MaxConcurrentRuns(call.tenant)
       THEN /\ Return(FALSE, NoRun, ErrMaxConcurrentRunsExceeded, "limit")
            /\ UNCHANGED <<runs, steps, run_requests>>
       ELSE IF ~TemplateFound(call.template)
       THEN \* the run was inserted before the template is loaded
            /\ Return(FALSE, NoRun, ErrWorkflowTemplateNotFound, "template")
            /\ runs' = RolledBack(runs, (r :> NewRun(call.tenant, call.priority, call.webhook)) @@ runs)
            /\ UNCHANGED <<steps, run_requests>>
       ELSE IF UniqueViolation(call.tenant, call.key)
       THEN \* isUniqueViolation: getRunIDByRequest, and the deferred rollback
            /\ Return(TRUE, CHOOSE x \in RequestRuns(call.tenant, call.key) : TRUE, "", "winner")
            /\ UNCHANGED <<runs, steps, run_requests>>
       ELSE /\ runs' = (r :> NewRun(call.tenant, call.priority, call.webhook)) @@ runs
            /\ steps' = (r :> InsertedSteps(call.template, now)) @@ steps
            /\ run_requests' =
                 IF call.key # NoKey
                 THEN run_requests \cup
                        {[api_key_id |-> call.tenant, idempotency_key |-> call.key, run_id |-> r]}
                 ELSE run_requests
            /\ Return(TRUE, r, "", "created")
    /\ UNCHANGED <<now, api_keys, templates, events, wcfg, wpc, wheld, resp, whook, posts, wtx, stream, schema>>

(* The statements of the transaction, any of which may return a storage       *)
(* error: 1 the api_keys row lock, 2 the count of active runs, 3 INSERT INTO   *)
(* runs, 4 the template's steps, 5 INSERT INTO steps, 6 INSERT INTO            *)
(* run_requests.                                                               *)
StorageStatements == 1..6

(* CreateRun when statement n returns a storage error (run_repo.go 82-192):    *)
(* the statements before n have run, the error is returned and the deferred    *)
(* rollback undoes them.                                                       *)
CreateRunAbort(c, n) ==
    LET call == calls[c]
        r == FreshRunId
    IN
    /\ call.pc = "tx"
    /\ n > 2 => ActiveRuns(call.tenant) < MaxConcurrentRuns(call.tenant)
    /\ n > 4 => TemplateFound(call.template)
    /\ n = 6 => call.key # NoKey /\ ~UniqueViolation(call.tenant, call.key)
    /\ calls' = [calls EXCEPT ![c] =
            [@ EXCEPT !.pc = "done", !.ok = FALSE, !.run = NoRun, !.err = ErrStorage,
                      !.ret = "storage", !.failed_at = n]]
    /\ runs' = RolledBack(runs,
                   IF n > 3 THEN (r :> NewRun(call.tenant, call.priority, call.webhook)) @@ runs
                   ELSE runs)
    /\ steps' = RolledBack(steps,
                   IF n > 5 THEN (r :> InsertedSteps(call.template, now)) @@ steps ELSE steps)
    /\ UNCHANGED <<now, api_keys, templates, events, run_requests, wcfg, wpc, wheld, resp, whook,
                   posts, wtx, stream, schema>>

----------------------------------------------------------------------------
(* Worker.claimOneStep *)

Executors == {StepLLM, StepTool}

(* -default-step-timeout, in seconds *)
DefaultStepTimeout == 30

(* A worker that ignores the stored timeout. *)
resolveStepTimeout_DefaultOnly(timeoutSeconds, defaultTimeout) == defaultTimeout

(* resolveStepTimeout (worker.go 663-673), in seconds *)
resolveStepTimeout(timeoutSeconds, defaultTimeout) ==
    IF timeoutSeconds # NULL /\ timeoutSeconds > 0 THEN timeoutSeconds
    ELSE IF defaultTimeout <= 0 THEN 30
    ELSE defaultTimeout

(* The rows a claim transaction of another worker holds locked: FOR UPDATE     *)
(* without OF locks the selected steps row and the runs row joined to it.      *)
StepLockedByOther(w, r, i) ==
    \E o \in Workers \ {w} :
        wpc[o] \in {"locked", "failing"} /\ wheld[o].run = r /\ wheld[o].step = i

RunLockedByOther(w, r) ==
    \E o \in Workers \ {w} : wpc[o] = "locked" /\ wheld[o].run = r

RunLocked(r) == \E o \in Workers : wpc[o] = "locked" /\ wheld[o].run = r

(* count of steps st JOIN runs r WHERE r.api_key_id = $1 AND st.status = RUNNING *)
RunningSteps(tenant) ==
    Cardinality({x \in StepRows :
        /\ runs[x[1]].api_key_id = tenant
        /\ steps[x[1]][x[2]].status = StepRunning})

(* The claim query's WHERE clause without its condition on next_run_at. *)
Eligible_AnyDeadline(w, r, i, txnow) ==
    LET st == steps[r][i] IN
    /\ \/ st.status = StepPending
       \/ /\ st.status = StepRunning
          /\ st.started_at # NULL
          /\ st.started_at < txnow - wcfg[w].reclaimAfter
    /\ st.name # StepApproval
    /\ runs[r].status \notin {RunCanceled, RunFailed, RunSuccess}
    /\ runs[r].api_key_id = wcfg[w].apiKeyID
    /\ ~ \E j \in StepIdx(r) :
            /\ steps[r][j].created_at < st.created_at
            /\ steps[r][j].status # StepSuccess

(* The claim query's WHERE clause without its filter on the run's tenant. *)
Eligible_AnyTenant(w, r, i, txnow) ==
    LET st == steps[r][i] IN
    /\ \/ st.status = StepPending
       \/ /\ st.status = StepRunning
          /\ st.started_at # NULL
          /\ st.started_at < txnow - wcfg[w].reclaimAfter
    /\ (st.next_run_at = NULL \/ st.next_run_at <= txnow)
    /\ st.name # StepApproval
    /\ runs[r].status \notin {RunCanceled, RunFailed, RunSuccess}
    /\ ~ \E j \in StepIdx(r) :
            /\ steps[r][j].created_at < st.created_at
            /\ steps[r][j].status # StepSuccess

(* The claim query's WHERE clause without its filter on the step name. *)
Eligible_AnyName(w, r, i, txnow) ==
    LET st == steps[r][i] IN
    /\ \/ st.status = StepPending
       \/ /\ st.status = StepRunning
          /\ st.started_at # NULL
          /\ st.started_at < txnow - wcfg[w].reclaimAfter
    /\ (st.next_run_at = NULL \/ st.next_run_at <= txnow)
    /\ runs[r].status \notin {RunCanceled, RunFailed, RunSuccess}
    /\ runs[r].api_key_id = wcfg[w].apiKeyID
    /\ ~ \E j \in StepIdx(r) :
            /\ steps[r][j].created_at < st.created_at
            /\ steps[r][j].status # StepSuccess

(* The claim query's WHERE clause without its condition on the run's status. *)
Eligible_AnyRunStatus(w, r, i, txnow) ==
    LET st == steps[r][i] IN
    /\ \/ st.status = StepPending
       \/ /\ st.status = StepRunning
          /\ st.started_at # NULL
          /\ st.started_at < txnow - wcfg[w].reclaimAfter
    /\ (st.next_run_at = NULL \/ st.next_run_at <= txnow)
    /\ st.name # StepApproval
    /\ runs[r].api_key_id = wcfg[w].apiKeyID
    /\ ~ \E j \in StepIdx(r) :
            /\ steps[r][j].created_at < st.created_at
            /\ steps[r][j].status # StepSuccess

(* The WHERE clause of the claim query (worker.go 216-229), for worker w whose *)
(* transaction began at txnow.                                                 *)
Eligible(w, r, i, txnow) ==
    LET st == steps[r][i] IN
    /\ \/ st.status = StepPending
       \/ /\ st.status = StepRunning
          /\ st.started_at # NULL
          /\ st.started_at < txnow - wcfg[w].reclaimAfter
    /\ (st.next_run_at = NULL \/ st.next_run_at <= txnow)
    /\ st.name # StepApproval
    /\ runs[r].status \notin {RunCanceled, RunFailed, RunSuccess}
    /\ runs[r].api_key_id = wcfg[w].apiKeyID
    /\ ~ \E j \in StepIdx(r) :
            /\ steps[r][j].created_at < st.created_at
            /\ steps[r][j].status # StepSuccess

(* A claim query that locks nothing and skips nothing. *)
SkipLocked_Never(w, r, i) == FALSE

(* FOR UPDATE SKIP LOCKED: a row locked by another transaction is passed over. *)
SkipLocked(w, r, i) == StepLockedByOther(w, r, i) \/ RunLockedByOther(w, r)

(* An ORDER BY st.created_at ASC alone. *)
SortsBefore_OldestFirst(x, y) ==
    steps[x[1]][x[2]].created_at < steps[y[1]][y[2]].created_at

(* ORDER BY r.priority DESC, st.created_at ASC: x sorts strictly before y *)
SortsBefore(x, y) ==
    \/ runs[x[1]].priority > runs[y[1]].priority
    \/ /\ runs[x[1]].priority = runs[y[1]].priority
       /\ steps[x[1]][x[2]].created_at < steps[y[1]][y[2]].created_at

(* The rows LIMIT 1 may return: the eligible unlocked rows no other sorts       *)
(* before.  Rows that tie in the sort key come in an order SQL leaves open.     *)
ClaimCandidates(w, txnow) ==
    LET rows == {x \in StepRows :
                    /\ Eligible(w, x[1], x[2], txnow)
                    /\ ~SkipLocked(w, x[1], x[2])}
    IN {x \in rows : \A y \in rows : ~SortsBefore(y, x)}

(* pool.Begin, the ceiling read and the count of RUNNING steps (worker.go 165-204). *)
ClaimGate(w) ==
    /\ wpc[w] = "idle"
    /\ IF RunningSteps(wcfg[w].apiKeyID) >= MaxConcurrentRuns(wcfg[w].apiKeyID)
       THEN UNCHANGED <<wpc, wheld>>
       ELSE /\ wpc' = [wpc EXCEPT ![w] = "gated"]
            /\ wheld' = wheld
    /\ UNCHANGED <<now, api_keys, templates, runs, steps, events, run_requests, calls, wcfg, resp, whook, posts, wtx, stream, schema>>

(* The claim query (worker.go 212-247): it returns and locks one row, or no row. *)
ClaimSelect(w) ==
    /\ wpc[w] = "gated"
    /\ IF ClaimCandidates(w, now) = {}
       THEN /\ wpc' = [wpc EXCEPT ![w] = "idle"]
            /\ wheld' = wheld
       ELSE \E x \in ClaimCandidates(w, now) :
            /\ wpc' = [wpc EXCEPT ![w] = "locked"]
            /\ wheld' = [wheld EXCEPT ![w] =
                    [run |-> x[1], step |-> x[2], name |-> steps[x[1]][x[2]].name,
                     status |-> steps[x[1]][x[2]].status]]
    /\ UNCHANGED <<now, api_keys, templates, runs, steps, events, run_requests, calls, wcfg, resp, whook, posts, wtx, stream, schema>>

(* UPDATE steps SET status=RUNNING, started_at=COALESCE(started_at, NOW()),     *)
(* next_run_at=NULL, attempts=attempts+1 (worker.go 267-279)                    *)
ClaimedStep(st, txnow) ==
    [st EXCEPT !.status = StepRunning,
               !.started_at = IF st.started_at = NULL THEN txnow ELSE st.started_at,
               !.next_run_at = NULL,
               !.attempts = st.attempts + 1]

(* UPDATE runs SET status=RUNNING WHERE id=$1 AND status=PENDING (worker.go 285-293) *)
ClaimedRun(run) ==
    IF run.status = RunPending THEN [run EXCEPT !.status = RunRunning] ELSE run

(* The updates, the STEP_CLAIMED event and the commit (worker.go 249-323). *)
ClaimCommit(w) ==
    LET r == wheld[w].run
        i == wheld[w].step
    IN
    /\ wpc[w] = "locked"
    /\ steps' = SetStep(r, i, ClaimedStep(steps[r][i], now))
    /\ runs' = [runs EXCEPT ![r] = ClaimedRun(runs[r])]
    /\ events' = Append(events, ClaimedEvent(r, i, wheld[w].status))
    /\ wpc' = [wpc EXCEPT ![w] = "exec"]
    /\ wheld' = wheld
    /\ UNCHANGED <<now, api_keys, templates, run_requests, calls, wcfg, resp, whook, posts, wtx, stream, schema>>

----------------------------------------------------------------------------
(* Worker.markStepSucceeded and Worker.markStepFailed *)

DurationBits == 16
maxDuration == 2^DurationBits - 1
DefaultRetryBaseDelay == 2

RECURSIVE Doubled(_, _)
Doubled(delay, n) ==
    IF n = 0 THEN delay
    ELSE IF delay > maxDuration \div 2 THEN maxDuration
    ELSE Doubled(delay * 2, n - 1)

(* A backoff whose doubling wraps around at the width of a duration. *)
backoffDelay_Wrapping(base, attempts) == (base * 2^attempts) % 2^DurationBits

(* backoffDelay (worker.go 642-661): base * 2^attempts, saturating at maxDuration *)
backoffDelay(base, attempts) ==
    LET b == IF base <= 0 THEN DefaultRetryBaseDelay ELSE base IN
    IF attempts <= 0 THEN b ELSE Doubled(b, attempts)

(* The cost an executor returns with its output, in hundredths of a dollar:   *)
(* the executors of TestWorkerTracksStepAndRunCosts.                          *)
ExecutorCost(name) == IF name = StepLLM THEN 125 ELSE 75

(* UPDATE steps SET status=SUCCEEDED, cost_usd=$4, next_run_at=NULL WHERE id=$1 *)
(* (worker.go 353-366)                                                          *)
SucceededStep(st) ==
    [st EXCEPT !.status = StepSuccess, !.next_run_at = NULL, !.cost_usd = ExecutorCost(st.name)]

(* A success commit that leaves the run's total alone. *)
CostedRun_Unchanged(run, costUSD) == run

(* UPDATE runs SET total_cost_usd = total_cost_usd + $2 WHERE id=$1 (worker.go 371-378) *)
CostedRun(run, costUSD) == [run EXCEPT !.total_cost_usd = run.total_cost_usd + costUSD]

(* A success commit that opens no approval step. *)
OpenedApprovals_None(name, rows) == {}

(* UPDATE steps SET status=WAITING_APPROVAL WHERE run_id=$1 AND name=APPROVAL   *)
(* AND status=PENDING, done when the finished step is TOOL (worker.go 391-406)  *)
OpenedApprovals(name, rows) ==
    IF name = StepTool
    THEN {j \in DOMAIN rows : rows[j].name = StepApproval /\ rows[j].status = StepPending}
    ELSE {}

(* UPDATE runs SET status=SUCCEEDED WHERE id=$1 AND NOT EXISTS (a step of the   *)
(* run with status <> SUCCEEDED) (worker.go 429-442); TRUE when a row is hit    *)
RunCompletes(rows) == \A j \in DOMAIN rows : rows[j].status = StepSuccess

(* deliverTerminalWebhook returns at once when the trimmed URL is empty *)
Deliverable(webhookURL) == webhookURL # ""

(* The executor returned without error: the succeed commit (worker.go 346-476). *)
MarkStepSucceeded(w) ==
    LET r == wheld[w].run
        i == wheld[w].step
        s1 == [steps[r] EXCEPT ![i] = SucceededStep(steps[r][i])]
        opened == OpenedApprovals(wheld[w].name, s1)
        s2 == [j \in DOMAIN s1 |->
                 IF j \in opened THEN [s1[j] EXCEPT !.status = StepWaiting] ELSE s1[j]]
    IN
    /\ wpc[w] = "exec"
    /\ wheld[w].name \in wcfg[w].executors
    /\ ~RunLocked(r)
    /\ steps' = [steps EXCEPT ![r] = s2]
    /\ events' = events \o <<Event("STEP_SUCCEEDED", r, i)>> \o
                   (IF opened # {}
                    THEN <<Event("STEP_WAITING_APPROVAL", r, CHOOSE j \in opened : \A k \in opened : j <= k)>>
                    ELSE <<>>)
    /\ runs' = [runs EXCEPT ![r] =
                   LET costed == CostedRun(runs[r], ExecutorCost(wheld[w].name))
                   IN IF RunCompletes(s2) THEN [costed EXCEPT !.status = RunSuccess] ELSE costed]
    /\ IF RunCompletes(s2) /\ Deliverable(runs[r].webhook_url)
       THEN /\ wpc' = [wpc EXCEPT ![w] = "webhook"]      \* runTerminal: deliverTerminalWebhook
            /\ whook' = [whook EXCEPT ![w] = Hook(r, RunSuccess, 1)]
       ELSE /\ wpc' = [wpc EXCEPT ![w] = "idle"]
            /\ whook' = whook
    /\ wheld' = [wheld EXCEPT ![w] = NoHeld]
    /\ UNCHANGED <<now, api_keys, templates, run_requests, calls, wcfg, resp, posts, wtx, stream, schema>>

(* UPDATE steps SET status=PENDING, next_run_at=$4 WHERE id=$1 (worker.go 516-528) *)
RetriedStep(st, nextRunAt) == [st EXCEPT !.status = StepPending, !.next_run_at = nextRunAt]

(* UPDATE steps SET status=FAILED, next_run_at=NULL WHERE id=$1 (worker.go 566-577) *)
FailedStep(st) == [st EXCEPT !.status = StepFailed, !.next_run_at = NULL]

(* UPDATE runs SET status=FAILED WHERE id=$1 AND status <> FAILED (worker.go 598-607) *)
FailedRun(run) == [run EXCEPT !.status = RunFailed]

(* The update at worker.go 598-607 returns a row: the run was not FAILED *)
RunFails(run) == run.status # RunFailed

(* A retry-or-fail commit that never retries. *)
RetryAllowed_Never(attempts, maxAttempts) == FALSE

(* if attempts < w.maxAttempts (worker.go 504-505) *)
RetryAllowed(attempts, maxAttempts) == attempts < maxAttempts

(* The executor returned an error, or no executor is registered for the step:  *)
(* the retry-or-fail commit (worker.go 481-640).                                *)
MarkStepFailed(w) ==
    LET r == wheld[w].run
        i == wheld[w].step
        attempts == steps[r][i].attempts
    IN
    /\ wpc[w] = "exec"
    /\ ~RunLocked(r)
    /\ IF RetryAllowed(attempts, wcfg[w].maxAttempts)
       THEN /\ steps' = SetStep(r, i,
                    RetriedStep(steps[r][i], now + backoffDelay(wcfg[w].retryBaseDelay, attempts)))
            /\ events' = Append(events, Event("STEP_FAILED_RETRY", r, i))
            /\ runs' = runs
       ELSE /\ steps' = SetStep(r, i, FailedStep(steps[r][i]))
            /\ events' = Append(events, Event("STEP_FAILED", r, i))
            /\ runs' = [runs EXCEPT ![r] = FailedRun(runs[r])]
    /\ IF /\ ~RetryAllowed(attempts, wcfg[w].maxAttempts)
          /\ RunFails(runs[r])
          /\ Deliverable(runs[r].webhook_url)
       THEN /\ wpc' = [wpc EXCEPT ![w] = "webhook"]      \* runTerminal: deliverTerminalWebhook
            /\ whook' = [whook EXCEPT ![w] = Hook(r, RunFailed, 1)]
       ELSE /\ wpc' = [wpc EXCEPT ![w] = "idle"]
            /\ whook' = whook
    /\ wheld' = [wheld EXCEPT ![w] = NoHeld]
    /\ UNCHANGED <<now, api_keys, templates, run_requests, calls, wcfg, resp, posts, wtx, stream, schema>>

----------------------------------------------------------------------------
(* Worker.deliverTerminalWebhook, called by markStepSucceeded and             *)
(* markStepFailed after their commit when the run update returned a row.      *)

webhookRetryAttempts == 3

(* What httpClient.Do may give: a transport error (no response), or a         *)
(* response with one of these status codes.                                   *)
ResponseCodes == {NULL, 200, 500}

(* resp.StatusCode >= http.StatusOK && resp.StatusCode < http.StatusMultipleChoices *)
Is2xx(code) == code # NULL /\ code >= 200 /\ code < 300

(* A retry loop that goes on whatever the attempt number. *)
RetryLeft_Always(attempt) == TRUE

(* if attempt < webhookRetryAttempts: wait, then the next iteration of the loop *)
RetryLeft(attempt) == attempt < webhookRetryAttempts

(* One iteration of the loop: the POST and what follows its outcome. *)
WebhookPost(w, code) ==
    /\ wpc[w] = "webhook"
    /\ posts' = Append(posts, [run |-> whook[w].run, status |-> whook[w].status,
                               attempt |-> whook[w].attempt, code |-> code])
    /\ IF ~Is2xx(code) /\ RetryLeft(whook[w].attempt)
       THEN /\ whook' = [whook EXCEPT ![w].attempt = @ + 1]
            /\ wpc' = wpc
       ELSE /\ whook' = [whook EXCEPT ![w] = NoHook]
            /\ wpc' = [wpc EXCEPT ![w] = "idle"]
    /\ UNCHANGED <<now, api_keys, templates, runs, steps, events, run_requests, calls, wcfg, wheld, resp, wtx, stream, schema>>

(* ctx.Done() while the loop waits before a retry: the caller of ProcessOnce  *)
(* has cancelled its context; the delivery returns and the caller, done with  *)
(* the worker, calls it no more.                                              *)
WebhookCanceled(w) ==
    /\ wpc[w] = "webhook"
    /\ whook[w].attempt > 1
    /\ whook' = [whook EXCEPT ![w] = NoHook]
    /\ wpc' = [wpc EXCEPT ![w] = "stopped"]
    /\ UNCHANGED <<now, api_keys, templates, runs, steps, events, run_requests, calls, wcfg, wheld, resp, posts, wtx, stream, schema>>

----------------------------------------------------------------------------
(* RunRepository.CancelRun and RunRepository.ApproveRun *)

(* A lookup of the run by id alone. *)
OwnedRun_AnyTenant(tenant, r) == r \in DOMAIN runs

(* SELECT status FROM runs WHERE id=$1 AND api_key_id=$2 returns a row *)
OwnedRun(tenant, r) == r \in DOMAIN runs /\ runs[r].api_key_id = tenant

(* The cancel update without its condition on the step's status. *)
CanceledSteps_All(rows) ==
    [j \in DOMAIN rows |-> [rows[j] EXCEPT !.status = StepCanceled]]

(* UPDATE steps SET status=CANCELED WHERE run_id=$1 AND status IN (PENDING,    *)
(* RUNNING, WAITING_APPROVAL) (run_repo.go 420-432)                             *)
CanceledSteps(rows) ==
    [j \in DOMAIN rows |->
        IF rows[j].status \in {StepPending, StepRunning, StepWaiting}
        THEN [rows[j] EXCEPT !.status = StepCanceled]
        ELSE rows[j]]

CancelRun(tenant, r) ==
    /\ r \in RunIds
    /\ IF ~OwnedRun(tenant, r)
       THEN /\ UNCHANGED <<runs, steps, events>>         \* Scan fails: pgx.ErrNoRows
            /\ resp' = Resp("CancelRun", tenant, r, ErrNoRows, <<>>)
       ELSE IF runs[r].status \in TerminalRunStatuses
       THEN /\ UNCHANGED <<runs, steps, events>>         \* cancel skipped (terminal)
            /\ resp' = Resp("CancelRun", tenant, r, "", <<>>)
       ELSE /\ ~RunLocked(r)
            /\ runs' = [runs EXCEPT ![r].status = RunCanceled]
            /\ steps' = [steps EXCEPT ![r] = CanceledSteps(steps[r])]
            /\ events' = Append(events, Event("RUN_CANCELED", r, NoStep))
            /\ resp' = Resp("CancelRun", tenant, r, "", <<>>)
    /\ UNCHANGED <<now, api_keys, templates, run_requests, calls, wcfg, wpc, wheld, whook, posts, wtx, stream, schema>>

(* The approval update without its condition on the step's status. *)
WaitingApprovals_AnyStatus(rows) ==
    {j \in DOMAIN rows : rows[j].name = StepApproval}

(* UPDATE steps SET status=SUCCEEDED WHERE run_id=$1 AND name=APPROVAL AND      *)
(* status=WAITING_APPROVAL RETURNING id (run_repo.go 492-507): the rows it hits *)
WaitingApprovals(rows) ==
    {j \in DOMAIN rows : rows[j].name = StepApproval /\ rows[j].status = StepWaiting}

ApprovedSteps(rows) ==
    [j \in DOMAIN rows |->
        IF j \in WaitingApprovals(rows)
        THEN [rows[j] EXCEPT !.status = StepSuccess,
                             !.started_at = IF rows[j].started_at = NULL THEN now ELSE rows[j].started_at]
        ELSE rows[j]]

(* remaining = count of the run's steps with status <> SUCCEEDED; the run       *)
(* becomes SUCCEEDED when it is 0, RUNNING otherwise (run_repo.go 550-567)      *)
ApprovedRunStatus(rows) ==
    IF \A j \in DOMAIN rows : rows[j].status = StepSuccess THEN RunSuccess ELSE RunRunning

ApproveRun(tenant, r) ==
    /\ r \in RunIds
    /\ resp' = Resp("ApproveRun", tenant, r, IF OwnedRun(tenant, r) THEN "" ELSE ErrNoRows, <<>>)
    /\ IF ~OwnedRun(tenant, r)
       THEN UNCHANGED <<runs, steps, events>>            \* Scan fails: pgx.ErrNoRows
       ELSE IF runs[r].status \in TerminalRunStatuses
       THEN UNCHANGED <<runs, steps, events>>            \* approve skipped (terminal)
       ELSE IF WaitingApprovals(steps[r]) = {}
       THEN UNCHANGED <<runs, steps, events>>            \* approve idempotent
       ELSE /\ ~RunLocked(r)
            /\ steps' = [steps EXCEPT ![r] = ApprovedSteps(steps[r])]
            /\ events' = events \o
                 <<Event("STEP_APPROVED", r,
                         CHOOSE j \in WaitingApprovals(steps[r]) :
                             \A k \in WaitingApprovals(steps[r]) : j <= k),
                   Event("RUN_APPROVED", r, NoStep)>>
            /\ runs' = [runs EXCEPT ![r].status = ApprovedRunStatus(ApprovedSteps(steps[r]))]
    /\ UNCHANGED <<now, api_keys, templates, run_requests, calls, wcfg, wpc, wheld, whook, posts, wtx, stream, schema>>

----------------------------------------------------------------------------
(* RunRepository.GetRun, StepRepository.ListSteps, RunRepository.GetRunCost *)

(* SELECT status FROM runs WHERE id=$1 AND api_key_id=$2 (run_repo.go 293-304) *)
GetRun(tenant, r) ==
    /\ r \in RunIds
    /\ resp' = IF OwnedRun(tenant, r)
               THEN Resp("GetRun", tenant, r, "", <<runs[r].status>>)
               ELSE Resp("GetRun", tenant, r, ErrNoRows, <<>>)
    /\ UNCHANGED <<now, api_keys, templates, runs, steps, events, run_requests, calls, wcfg, wpc, wheld, whook, posts, wtx, stream, schema>>

(* The orders in which ORDER BY created_at ASC may return the steps of run r:   *)
(* rows with equal created_at come in an order SQL leaves open.                 *)
StepOrders(r) ==
    {p \in [StepIdx(r) -> StepIdx(r)] :
        /\ \A i, j \in StepIdx(r) : i # j => p[i] # p[j]
        /\ \A i, j \in StepIdx(r) :
              i < j => steps[r][p[i]].created_at <= steps[r][p[j]].created_at}

(* The rows SELECT id, name, status FROM steps WHERE run_id=$1 returns, in order p *)
StepRecords(r, p) ==
    [k \in StepIdx(r) |-> [step |-> p[k], name |-> steps[r][p[k]].name, status |-> steps[r][p[k]].status]]

(* StepRepository.ListSteps (step_repo.go 30-93): the ownership check, then the rows *)
ListSteps(tenant, r) ==
    /\ r \in RunIds
    /\ IF OwnedRun(tenant, r)
       THEN \E p \in StepOrders(r) : resp' = Resp("ListSteps", tenant, r, "", StepRecords(r, p))
       ELSE resp' = Resp("ListSteps", tenant, r, ErrNoRows, <<>>)
    /\ UNCHANGED <<now, api_keys, templates, runs, steps, events, run_requests, calls, wcfg, wpc, wheld, whook, posts, wtx, stream, schema>>

(* RunRepository.GetRunCost (run_repo.go 307-375): the run's row under the      *)
(* tenant, then its steps in created_at order; the response is modelled by the  *)
(* steps' names and statuses.                                                   *)
GetRunCost(tenant, r) ==
    /\ r \in RunIds
    /\ IF OwnedRun(tenant, r)
       THEN \E p \in StepOrders(r) : resp' = Resp("GetRunCost", tenant, r, "", StepRecords(r, p))
       ELSE resp' = Resp("GetRunCost", tenant, r, ErrNoRows, <<>>)
    /\ UNCHANGED <<now, api_keys, templates, runs, steps, events, run_requests, calls, wcfg, wpc, wheld, whook, posts, wtx, stream, schema>>

----------------------------------------------------------------------------
(* The scheduler: one tenant, its workers, runs of the seeded template. *)

SchedCalls == 1
SchedWorkers == 2

MaxAttempts == 2
ReclaimAfter == 1
RetryBaseDelay == 1

(* worker.New with the flags -api-key-id, -max-attempts, -reclaim-after and     *)
(* -retry-base-delay, the durations in the clock's unit.                        *)
WorkerFlags(tenant) ==
    [apiKeyID |-> tenant, maxAttempts |-> MaxAttempts, executors |-> Executors,
     defaultStepTimeout |-> DefaultStepTimeout,
     reclaimAfter |-> ReclaimAfter, retryBaseDelay |-> RetryBaseDelay]

SchedKeys == [t \in {"A"} |-> [max_concurrent_runs |-> DefaultMaxConcurrentRuns]]
SchedTemplates == [default |-> DefaultTemplate]

Init ==
    InitStore(SchedKeys, SchedTemplates, [w \in 1..SchedWorkers |-> WorkerFlags("A")], SchedCalls)

Next ==
    \/ Tick
    \/ \E c \in Calls : CreateRunBegin(c, "A", NoKey, "", 0, "")
    \/ \E c \in Calls : CreateRunCommit(c)
    \/ \E w \in Workers : ClaimGate(w)
    \/ \E w \in Workers : ClaimSelect(w)
    \/ \E w \in Workers : ClaimCommit(w)
    \/ \E w \in Workers : MarkStepSucceeded(w)
    \/ \E w \in Workers : MarkStepFailed(w)
    \/ \E r \in RunIds : CancelRun("A", r)
    \/ \E r \in RunIds : ApproveRun("A", r)

Spec == Init /\ [][Next]_vars

----------------------------------------------------------------------------
(* Run creation: two tenants, calls with and without an idempotency key, and    *)
(* a worker and cancel calls that move the tenant's count of active runs.       *)

CreateCalls == 3

CreateKeys ==
    [t \in {"A", "B"} |->
        [max_concurrent_runs |-> IF t = "A" THEN 1 ELSE DefaultMaxConcurrentRuns]]

InitCreate ==
    InitStore(CreateKeys, SchedTemplates, [w \in {1} |-> WorkerFlags("A")], CreateCalls)

NextCreate ==
    \/ \E c \in Calls : \E t \in {"A", "B"} : \E k \in {"k1", NoKey} : \E tpl \in {"", "missing"} :
          CreateRunBegin(c, t, k, tpl, 0, "")
    \/ \E c \in Calls : CreateRunCommit(c)
    \/ \E w \in Workers : ClaimGate(w)
    \/ \E w \in Workers : ClaimSelect(w)
    \/ \E w \in Workers : ClaimCommit(w)
    \/ \E r \in RunIds : CancelRun("A", r)

SpecCreate == InitCreate /\ [][NextCreate]_vars

----------------------------------------------------------------------------
(* Two tenants, a run of either, the dedicated worker of tenant A, and the      *)
(* repository calls made by either tenant on any run id.                       *)

TenantCalls == 1

Tenants == {"A", "B"}

TenantKeys == [t \in Tenants |-> [max_concurrent_runs |-> DefaultMaxConcurrentRuns]]

InitTenant ==
    InitStore(TenantKeys, SchedTemplates, [w \in {1} |-> WorkerFlags("A")], TenantCalls)

NextTenant ==
    \/ Tick
    \/ \E c \in Calls : \E t \in Tenants : CreateRunBegin(c, t, NoKey, "", 0, "")
    \/ \E c \in Calls : CreateRunCommit(c)
    \/ \E w \in Workers : ClaimGate(w)
    \/ \E w \in Workers : ClaimSelect(w)
    \/ \E w \in Workers : ClaimCommit(w)
    \/ \E w \in Workers : MarkStepSucceeded(w)
    \/ \E w \in Workers : MarkStepFailed(w)
    \/ \E t \in Tenants : \E r \in RunIds : GetRun(t, r)
    \/ \E t \in Tenants : \E r \in RunIds : ListSteps(t, r)
    \/ \E t \in Tenants : \E r \in RunIds : GetRunCost(t, r)
    \/ \E t \in Tenants : \E r \in RunIds : CancelRun(t, r)
    \/ \E t \in Tenants : \E r \in RunIds : ApproveRun(t, r)

SpecTenant == InitTenant /\ [][NextTenant]_vars

----------------------------------------------------------------------------
(* The concurrency ceiling: one tenant with ceiling 1, two runs, two workers.   *)

CeilingCalls == 2
CeilingWorkers == 2

CeilingKeys == [t \in {"A"} |-> [max_concurrent_runs |-> 1]]

InitCeiling ==
    InitStore(CeilingKeys, SchedTemplates,
              [w \in 1..CeilingWorkers |-> WorkerFlags("A")], CeilingCalls)

NextCeiling ==
    \/ \E c \in Calls : CreateRunBegin(c, "A", NoKey, "", 0, "")
    \/ \E c \in Calls : CreateRunCommit(c)
    \/ \E w \in Workers : ClaimGate(w)
    \/ \E w \in Workers : ClaimSelect(w)
    \/ \E w \in Workers : ClaimCommit(w)
    \/ \E w \in Workers : MarkStepSucceeded(w)

SpecCeiling == InitCeiling /\ [][NextCeiling]_vars

----------------------------------------------------------------------------
(* Retries: one run, a worker with a small retry base delay and a worker with  *)
(* one so large that the doubling reaches the largest duration.                *)

RetryMaxAttempts == 3

LargeRetryBaseDelay == 2^(DurationBits - 2)

RetryFlags(base) ==
    [apiKeyID |-> "A", maxAttempts |-> RetryMaxAttempts, executors |-> Executors,
     defaultStepTimeout |-> DefaultStepTimeout,
     reclaimAfter |-> ReclaimAfter, retryBaseDelay |-> base]

InitRetry ==
    InitStore(SchedKeys, SchedTemplates,
              [w \in 1..2 |-> RetryFlags(IF w = 1 THEN RetryBaseDelay ELSE LargeRetryBaseDelay)],
              SchedCalls)

NextRetry ==
    \/ Tick
    \/ \E c \in Calls : CreateRunBegin(c, "A", NoKey, "", 0, "")
    \/ \E c \in Calls : CreateRunCommit(c)
    \/ \E w \in Workers : ClaimGate(w)
    \/ \E w \in Workers : ClaimSelect(w)
    \/ \E w \in Workers : ClaimCommit(w)
    \/ \E w \in Workers : MarkStepSucceeded(w)
    \/ \E w \in Workers : MarkStepFailed(w)

SpecRetry == InitRetry /\ [][NextRetry]_vars

----------------------------------------------------------------------------
(* Reclaim after a crash: one tenant with ceiling 1, one run, a worker that    *)
(* may crash while it executes a step, and a worker that keeps ticking.        *)

(* The worker process dies between its claim commit and its next commit: the   *)
(* step it claimed stays RUNNING and the process takes no further step.        *)
Crash(w) ==
    /\ wpc[w] = "exec"
    /\ wpc' = [wpc EXCEPT ![w] = "crashed"]
    /\ UNCHANGED <<now, api_keys, templates, runs, steps, events, run_requests, calls, wcfg, wheld, resp, whook, posts, wtx, stream, schema>>

CrashingWorker == 1
LiveWorker == 2

InitReclaim ==
    InitStore(CeilingKeys, SchedTemplates,
              [w \in {CrashingWorker, LiveWorker} |-> WorkerFlags("A")], SchedCalls)

NextReclaim ==
    \/ Tick
    \/ \E c \in Calls : CreateRunBegin(c, "A", NoKey, "", 0, "")
    \/ \E c \in Calls : CreateRunCommit(c)
    \/ \E w \in Workers : ClaimGate(w)
    \/ \E w \in Workers : ClaimSelect(w)
    \/ \E w \in Workers : ClaimCommit(w)
    \/ \E w \in Workers : MarkStepSucceeded(w)
    \/ \E w \in Workers : MarkStepFailed(w)
    \/ Crash(CrashingWorker)

(* The clock advances, and the live worker's poll loop (cmd/worker/main.go     *)
(* 105-113) keeps calling ProcessOnce, each call running to its end.           *)
SpecReclaim ==
    /\ InitReclaim
    /\ [][NextReclaim]_vars
    /\ WF_vars(Tick)
    /\ WF_vars(ClaimGate(LiveWorker))
    /\ WF_vars(ClaimSelect(LiveWorker))
    /\ WF_vars(ClaimCommit(LiveWorker))
    /\ WF_vars(MarkStepSucceeded(LiveWorker) \/ MarkStepFailed(LiveWorker))

----------------------------------------------------------------------------
(* Executions shorter than the reclaim window: the executor's context deadline *)
(* (worker.go 336-343) ends every execution of a live worker within the clock  *)
(* unit of its claim, and the reclaim window is one unit.  A worker may crash. *)

(* The clock advances only while no live worker is executing a step. *)
TickBetweenExecutions ==
    /\ \A w \in Workers : wpc[w] # "exec"
    /\ Tick

NextExec ==
    \/ TickBetweenExecutions
    \/ \E c \in Calls : CreateRunBegin(c, "A", NoKey, "", 0, "")
    \/ \E c \in Calls : CreateRunCommit(c)
    \/ \E w \in Workers : ClaimGate(w)
    \/ \E w \in Workers : ClaimSelect(w)
    \/ \E w \in Workers : ClaimCommit(w)
    \/ \E w \in Workers : MarkStepSucceeded(w)
    \/ \E w \in Workers : MarkStepFailed(w)
    \/ \E w \in Workers : Crash(w)

SpecExec == Init /\ [][NextExec]_vars

----------------------------------------------------------------------------
(* Priorities: one tenant, two runs created at any times with any of two       *)
(* priorities, and two workers, each followed up to its first claim and while  *)
(* it executes the step it claimed.                                            *)

PriorityCalls == 2
PriorityWorkers == 2

Priorities == {0, 1}

InitPriority ==
    InitStore(SchedKeys, SchedTemplates,
              [w \in 1..PriorityWorkers |-> WorkerFlags("A")], PriorityCalls)

NextPriority ==
    \/ Tick
    \/ \E c \in Calls : \E p \in Priorities : CreateRunBegin(c, "A", NoKey, "", p, "")
    \/ \E c \in Calls : CreateRunCommit(c)
    \/ \E w \in Workers : ClaimGate(w)
    \/ \E w \in Workers : ClaimSelect(w)
    \/ \E w \in Workers : ClaimCommit(w)

SpecPriority == InitPriority /\ [][NextPriority]_vars

----------------------------------------------------------------------------
(* Webhooks: the scheduler of Spec with a run that has a webhook URL, approve  *)
(* calls and the deliveries of the workers to a target that answers 200.       *)

WebhookURL == "https://hooks.example/run"

NextWebhook ==
    \/ Tick
    \/ \E c \in Calls : CreateRunBegin(c, "A", NoKey, "", 0, WebhookURL)
    \/ \E c \in Calls : CreateRunCommit(c)
    \/ \E w \in Workers : ClaimGate(w)
    \/ \E w \in Workers : ClaimSelect(w)
    \/ \E w \in Workers : ClaimCommit(w)
    \/ \E w \in Workers : MarkStepSucceeded(w)
    \/ \E w \in Workers : MarkStepFailed(w)
    \/ \E r \in RunIds : ApproveRun("A", r)
    \/ \E w \in Workers : WebhookPost(w, 200)

SpecWebhook == Init /\ [][NextWebhook]_vars

----------------------------------------------------------------------------
(* One delivery: a run with a webhook URL, approve calls, and one worker that  *)
(* fails a run at the first failure of a step and keeps running.               *)

DeliveryMaxAttempts == 1
DeliveryWorker == 1

InitDelivery ==
    InitStore(SchedKeys, SchedTemplates,
              [w \in {DeliveryWorker} |->
                  [WorkerFlags("A") EXCEPT !.maxAttempts = DeliveryMaxAttempts]],
              SchedCalls)

NextDelivery ==
    \/ \E c \in Calls : CreateRunBegin(c, "A", NoKey, "", 0, WebhookURL)
    \/ \E c \in Calls : CreateRunCommit(c)
    \/ ClaimGate(DeliveryWorker)
    \/ ClaimSelect(DeliveryWorker)
    \/ ClaimCommit(DeliveryWorker)
    \/ MarkStepSucceeded(DeliveryWorker)
    \/ MarkStepFailed(DeliveryWorker)
    \/ \E r \in RunIds : ApproveRun("A", r)
    \/ \E code \in ResponseCodes : WebhookPost(DeliveryWorker, code)
    \/ WebhookCanceled(DeliveryWorker)

(* The worker's poll loop keeps calling ProcessOnce, each call runs to its end *)
(* (httpClient has a timeout, so every POST returns), the run is created and   *)
(* the approve call of a waiting run is made.                                  *)
SpecDelivery ==
    /\ InitDelivery
    /\ [][NextDelivery]_vars
    /\ WF_vars(\E c \in Calls : CreateRunBegin(c, "A", NoKey, "", 0, WebhookURL))
    /\ WF_vars(\E c \in Calls : CreateRunCommit(c))
    /\ WF_vars(ClaimGate(DeliveryWorker))
    /\ WF_vars(ClaimSelect(DeliveryWorker))
    /\ WF_vars(ClaimCommit(DeliveryWorker))
    /\ WF_vars(MarkStepSucceeded(DeliveryWorker) \/ MarkStepFailed(DeliveryWorker))
    /\ WF_vars(\E r \in RunIds : ApproveRun("A", r))
    /\ WF_vars(\E code \in ResponseCodes : WebhookPost(DeliveryWorker, code))

----------------------------------------------------------------------------
(* The event stream: events.seq is taken when a transaction inserts the event *)
(* (migrations/001_init.sql 42-50), the event is visible from the commit.     *)

(* The retry-or-fail transaction up to its INSERT INTO events (worker.go      *)
(* 481-541 and 566-587): the UPDATE of the steps row waits for a claim that   *)
(* holds the row and takes the row lock; the event takes the next seq; other  *)
(* transactions see neither before the commit.                                *)
MarkStepFailedInsert(w) ==
    LET r == wheld[w].run
        i == wheld[w].step
        type == IF RetryAllowed(steps[r][i].attempts, wcfg[w].maxAttempts)
                THEN "STEP_FAILED_RETRY" ELSE "STEP_FAILED"
    IN
    /\ wpc[w] = "exec"
    /\ ~StepLockedByOther(w, r, i)
    /\ events' = Append(events, Event(type, r, i))
    /\ wtx' = [wtx EXCEPT ![w] = Len(events) + 1]
    /\ wpc' = [wpc EXCEPT ![w] = "failing"]
    /\ UNCHANGED <<now, api_keys, templates, runs, steps, run_requests, calls, wcfg, wheld, resp,
                   whook, posts, stream, schema>>

(* The rest of the retry-or-fail transaction (worker.go 543-545 and 589-640): *)
(* on the permanent path the UPDATE of the runs row, which waits for a claim  *)
(* that holds the row, then the commit.                                       *)
MarkStepFailedCommit(w) ==
    LET r == wheld[w].run
        i == wheld[w].step
        attempts == steps[r][i].attempts
        retry == events[wtx[w]].type = "STEP_FAILED_RETRY"
    IN
    /\ wpc[w] = "failing"
    /\ retry \/ ~RunLockedByOther(w, r)
    /\ IF retry
       THEN /\ steps' = SetStep(r, i,
                    RetriedStep(steps[r][i], now + backoffDelay(wcfg[w].retryBaseDelay, attempts)))
            /\ runs' = runs
       ELSE /\ steps' = SetStep(r, i, FailedStep(steps[r][i]))
            /\ runs' = [runs EXCEPT ![r] = FailedRun(runs[r])]
    /\ IF ~retry /\ RunFails(runs[r]) /\ Deliverable(runs[r].webhook_url)
       THEN /\ wpc' = [wpc EXCEPT ![w] = "webhook"]
            /\ whook' = [whook EXCEPT ![w] = Hook(r, RunFailed, 1)]
       ELSE /\ wpc' = [wpc EXCEPT ![w] = "idle"]
            /\ whook' = whook
    /\ wtx' = [wtx EXCEPT ![w] = NoSeq]
    /\ wheld' = [wheld EXCEPT ![w] = NoHeld]
    /\ UNCHANGED <<now, api_keys, templates, events, run_requests, calls, wcfg, resp, posts, stream, schema>>

(* The success commit, whose UPDATE of the steps row waits for a transaction  *)
(* that holds the row.                                                        *)
MarkStepSucceededUnblocked(w) ==
    /\ ~StepLockedByOther(w, wheld[w].run, wheld[w].step)
    /\ MarkStepSucceeded(w)

(* The seqs of events inserted by transactions that have not committed. *)
Uncommitted == {wtx[w] : w \in Workers} \ {NoSeq}

(* EventRepository.ListEventsAfter: the seqs of the committed events of run r *)
(* of the tenant with seq > afterSeq (run_repo.go 624-634).                   *)
ListEventsAfter(tenant, r, afterSeq) ==
    {k \in DOMAIN events : /\ OwnedRun(tenant, r)
                           /\ events[k].run_id = r
                           /\ k > afterSeq
                           /\ k \notin Uncommitted}

(* ORDER BY e.seq ASC *)
RECURSIVE Ascending(_)
Ascending(S) ==
    IF S = {} THEN <<>>
    ELSE LET m == CHOOSE x \in S : \A y \in S : x <= y
         IN <<m>> \o Ascending(S \ {m})

(* The run whose events the connection streams. *)
StreamRun == 1

(* writeEvents of GET /runs/{id}/events (router.go 551-575), called once at   *)
(* connection and then on every tick of the 500 ms ticker: each event listed  *)
(* is written and the cursor set to its seq.                                  *)
WriteEvents ==
    LET listed == Ascending(ListEventsAfter("A", StreamRun, stream.cursor))
    IN
    /\ stream' = [cursor |-> IF listed = <<>> THEN stream.cursor ELSE listed[Len(listed)],
                  sent |-> stream.sent \o listed]
    /\ UNCHANGED <<now, api_keys, templates, runs, steps, events, run_requests, calls, wcfg,
                   wpc, wheld, resp, whook, posts, wtx, schema>>

NextStream ==
    \/ \E c \in Calls : CreateRunBegin(c, "A", NoKey, "", 0, "")
    \/ \E c \in Calls : CreateRunCommit(c)
    \/ \E w \in Workers : ClaimGate(w)
    \/ \E w \in Workers : ClaimSelect(w)
    \/ \E w \in Workers : ClaimCommit(w)
    \/ \E w \in Workers : MarkStepSucceededUnblocked(w)
    \/ \E w \in Workers : MarkStepFailedInsert(w)
    \/ \E w \in Workers : MarkStepFailedCommit(w)
    \/ WriteEvents

SpecStream == Init /\ [][NextStream]_vars

----------------------------------------------------------------------------
(* One worker whose executors succeed, approve calls, no cancel. *)

NextSuccess ==
    \/ Tick
    \/ \E c \in Calls : CreateRunBegin(c, "A", NoKey, "", 0, "")
    \/ \E c \in Calls : CreateRunCommit(c)
    \/ ClaimGate(DeliveryWorker)
    \/ ClaimSelect(DeliveryWorker)
    \/ ClaimCommit(DeliveryWorker)
    \/ MarkStepSucceeded(DeliveryWorker)
    \/ \E r \in RunIds : ApproveRun("A", r)

SpecSuccess == InitDelivery /\ [][NextSuccess]_vars

----------------------------------------------------------------------------
(* Runs of the seeded template and of a custom template in which no TOOL    *)
(* step precedes the APPROVAL step, and a worker whose registry holds an     *)
(* executor for LLM only (the executors field of Worker, worker.go 37).      *)
(* Step names are those claimOneStep accepts (worker.go 251-256).            *)

CustomTemplates ==
    [default |-> DefaultTemplate,
     review  |-> <<StepLLM, StepApproval>>]

InitTemplate ==
    InitStore(SchedKeys, CustomTemplates,
              [w \in {DeliveryWorker} |-> [WorkerFlags("A") EXCEPT !.executors = {StepLLM}]],
              SchedCalls)

NextTemplate ==
    \/ Tick
    \/ \E c \in Calls : \E t \in {"", "review"} : CreateRunBegin(c, "A", NoKey, t, 0, "")
    \/ \E c \in Calls : CreateRunCommit(c)
    \/ ClaimGate(DeliveryWorker)
    \/ ClaimSelect(DeliveryWorker)
    \/ ClaimCommit(DeliveryWorker)
    \/ MarkStepSucceeded(DeliveryWorker)
    \/ MarkStepFailed(DeliveryWorker)
    \/ \E r \in RunIds : ApproveRun("A", r)

(* The ticker loop of the worker keeps polling, the clock advances and calls *)
(* that were made return.                                                    *)
SpecTemplate ==
    /\ InitTemplate
    /\ [][NextTemplate]_vars
    /\ SF_vars(Tick)
    /\ WF_vars(\E c \in Calls : CreateRunCommit(c))
    /\ WF_vars(ClaimGate(DeliveryWorker))
    /\ WF_vars(ClaimSelect(DeliveryWorker))
    /\ WF_vars(ClaimCommit(DeliveryWorker))
    /\ WF_vars(MarkStepSucceeded(DeliveryWorker) \/ MarkStepFailed(DeliveryWorker))
    /\ WF_vars(\E r \in RunIds : ApproveRun("A", r))

----------------------------------------------------------------------------
(* Step timeouts: executeStep runs the executor under context.WithTimeout of  *)
(* the resolved timeout (worker.go 324-343); an executor returns ctx.Err()    *)
(* when the deadline passes before it is done (llm_executor.go 26-32).        *)

(* How long an executor would run undisturbed, in seconds: the 2 s of the     *)
(* LLM executor, and one that outlasts the default timeout.                   *)
ExecDurations == {2, 40}

(* executeStep and the commit that follows it in ProcessOnce (worker.go       *)
(* 125-139), for an executor that would run d seconds and then succeed (ok)   *)
(* or return an error.                                                        *)
ExecuteStep(w, d, ok) ==
    IF /\ wpc[w] = "exec"
       /\ d > resolveStepTimeout(steps[wheld[w].run][wheld[w].step].timeout_seconds,
                                 wcfg[w].defaultStepTimeout)
    THEN MarkStepFailed(w)
    ELSE IF ok THEN MarkStepSucceeded(w) ELSE MarkStepFailed(w)

TimedTemplates ==
    [default |-> DefaultTemplate,
     timed   |-> <<StepLLM, StepTool>>]

InitTimeout ==
    InitStore(SchedKeys, TimedTemplates, [w \in {DeliveryWorker} |-> WorkerFlags("A")], SchedCalls)

NextTimeout ==
    \/ Tick
    \/ \E c \in Calls : \E t \in {"", "timed"} : CreateRunBegin(c, "A", NoKey, t, 0, "")
    \/ \E c \in Calls : CreateRunCommit(c)
    \/ ClaimGate(DeliveryWorker)
    \/ ClaimSelect(DeliveryWorker)
    \/ ClaimCommit(DeliveryWorker)
    \/ \E d \in ExecDurations : \E ok \in BOOLEAN : ExecuteStep(DeliveryWorker, d, ok)

SpecTimeout == InitTimeout /\ [][NextTimeout]_vars

----------------------------------------------------------------------------
(* CreateRun calls as in SpecCreate, any of which may meet a storage error. *)

NextAbort ==
    \/ NextCreate
    \/ \E c \in Calls : \E n \in StorageStatements : CreateRunAbort(c, n)

SpecAbort == InitCreate /\ [][NextAbort]_vars

----------------------------------------------------------------------------
(* postgres.EnsureSchema (migrate.go 53-153) and migrations.Ordered           *)

(* The embedded migration files, named by the digits their filenames start    *)
(* with: 001_init.sql, 006_api_key_lifecycle.sql and a later file.            *)
EmbeddedFiles == {<<0, 1, 0>>, <<0, 0, 6>>, <<0, 0, 1>>}

(* files[i].Name < files[j].Name: Go's string comparison, on names of equal length *)
RECURSIVE NameLess(_, _)
NameLess(a, b) ==
    IF a = <<>> \/ b = <<>> THEN a = <<>> /\ b # <<>>
    ELSE IF Head(a) # Head(b) THEN Head(a) < Head(b)
    ELSE NameLess(Tail(a), Tail(b))

(* sort.Slice by name (embed.go 43-45) *)
RECURSIVE SortedByName(_)
SortedByName(files) ==
    IF files = {} THEN <<>>
    ELSE LET first == CHOOSE f \in files : \A g \in files \ {f} : NameLess(f, g)
         IN <<first>> \o SortedByName(files \ {first})

Ordered == SortedByName(EmbeddedFiles)

(* Everything but the schema bootstrap. *)
storeVars == <<now, api_keys, templates, runs, steps, events, run_requests, calls, wcfg, wpc,
               wheld, resp, whook, posts, wtx, stream>>

BootProc == DOMAIN schema.procs

(* A process starts and calls EnsureSchema: it asks for the advisory lock. *)
EnsureSchemaCall(p) ==
    /\ schema.procs[p].pc \in {"off", "returned"}
    /\ schema.procs[p].runs < BootRuns
    /\ schema' = [schema EXCEPT !.procs[p] =
            [pc |-> "waiting", idx |-> 0, runs |-> @.runs + 1, applied |-> 0, err |-> FALSE,
             bootstrapped |-> FALSE]]
    /\ UNCHANGED storeVars

(* SELECT pg_advisory_lock($1) returns once no other session holds the lock;  *)
(* CREATE TABLE IF NOT EXISTS schema_migrations; migrations.Ordered().        *)
EnsureSchemaLock(p) ==
    /\ schema.procs[p].pc = "waiting"
    /\ schema.lock = NoProc
    /\ schema' = [schema EXCEPT !.lock = p,
                                !.procs[p].pc = "loop",
                                !.procs[p].idx = 1,
                                !.procs[p].bootstrapped = (EmbeddedFiles \subseteq schema.recorded)]
    /\ UNCHANGED storeVars

(* A check that never finds the migration recorded. *)
AlreadyApplied_Never(file) == FALSE

(* SELECT EXISTS(SELECT 1 FROM schema_migrations WHERE filename = $1) *)
AlreadyApplied(file) == file \in schema.recorded

(* One iteration of the loop over the migrations (migrate.go 100-121): the    *)
(* file is skipped when recorded, else applyMigration runs its SQL and        *)
(* records the filename in one transaction, which commits (ok) or fails and   *)
(* is rolled back; a failure returns the error and releases the lock.         *)
EnsureSchemaStep(p, ok) ==
    LET proc == schema.procs[p]
        file == Ordered[proc.idx]
    IN
    /\ proc.pc = "loop"
    /\ proc.idx <= Len(Ordered)
    /\ IF AlreadyApplied(file)
       THEN schema' = [schema EXCEPT !.procs[p].idx = @ + 1]
       ELSE IF ok
       THEN schema' = [schema EXCEPT !.recorded = @ \cup {file},
                                     !.log = Append(@, file),
                                     !.procs[p].idx = @ + 1,
                                     !.procs[p].applied = @ + 1]
       ELSE schema' = [schema EXCEPT !.lock = NoProc,
                                     !.procs[p].pc = "returned",
                                     !.procs[p].err = TRUE]
    /\ UNCHANGED storeVars

(* The loop is over: SchemaReady, the deferred pg_advisory_unlock, return nil. *)
EnsureSchemaReturn(p) ==
    /\ schema.procs[p].pc = "loop"
    /\ schema.procs[p].idx > Len(Ordered)
    /\ schema' = [schema EXCEPT !.lock = NoProc, !.procs[p].pc = "returned"]
    /\ UNCHANGED storeVars

NextMigrate ==
    \/ \E p \in BootProc : EnsureSchemaCall(p)
    \/ \E p \in BootProc : EnsureSchemaLock(p)
    \/ \E p \in BootProc : \E ok \in BOOLEAN : EnsureSchemaStep(p, ok)
    \/ \E p \in BootProc : EnsureSchemaReturn(p)

SpecMigrate == Init /\ [][NextMigrate]_vars

----------------------------------------------------------------------------
(* Two workers started with the default -max-attempts of 3 (main.go 39), a   *)
(* run of the seeded template, and approve calls.                             *)

InitStale ==
    InitStore(SchedKeys, SchedTemplates, [w \in 1..2 |-> RetryFlags(RetryBaseDelay)], SchedCalls)

NextStale ==
    \/ Tick
    \/ \E c \in Calls : CreateRunBegin(c, "A", NoKey, "", 0, "")
    \/ \E c \in Calls : CreateRunCommit(c)
    \/ \E w \in Workers : ClaimGate(w)
    \/ \E w \in Workers : ClaimSelect(w)
    \/ \E w \in Workers : ClaimCommit(w)
    \/ \E w \in Workers : MarkStepSucceeded(w)
    \/ \E w \in Workers : MarkStepFailed(w)
    \/ \E r \in RunIds : ApproveRun("A", r)

SpecStale == InitStale /\ [][NextStale]_vars

----------------------------------------------------------------------------
(* One worker process that does not crash (cmd/worker/main.go 105-113: the   *)
(* poll loop calls ProcessOnce at every tick of its ticker), executors that  *)
(* return, a run of the seeded template, and the approve call.               *)

(* The executor returned an error (worker.go 125-137), early enough for the  *)
(* deadline of a retry to lie within the clock's range.                      *)
ExecutorFails(w) ==
    /\ MarkStepFailed(w)
    /\ \A r \in DOMAIN steps' : \A i \in DOMAIN steps'[r] : steps'[r][i].next_run_at <= MaxTime

InitLive ==
    InitStore(SchedKeys, SchedTemplates, [w \in {DeliveryWorker} |-> WorkerFlags("A")], SchedCalls)

NextLive ==
    \/ Tick
    \/ \E c \in Calls : CreateRunBegin(c, "A", NoKey, "", 0, "")
    \/ \E c \in Calls : CreateRunCommit(c)
    \/ ClaimGate(DeliveryWorker)
    \/ ClaimSelect(DeliveryWorker)
    \/ ClaimCommit(DeliveryWorker)
    \/ MarkStepSucceeded(DeliveryWorker)
    \/ ExecutorFails(DeliveryWorker)
    \/ \E r \in RunIds : ApproveRun("A", r)

(* Time passes again and again, whatever the worker is doing; every call of  *)
(* ProcessOnce runs to its end; a begun CreateRun commits; the approve call   *)
(* of a waiting run is made.                                                  *)
SpecLive ==
    /\ InitLive
    /\ [][NextLive]_vars
    /\ SF_vars(Tick)
    /\ WF_vars(\E c \in Calls : CreateRunCommit(c))
    /\ WF_vars(ClaimGate(DeliveryWorker))
    /\ WF_vars(ClaimSelect(DeliveryWorker))
    /\ WF_vars(ClaimCommit(DeliveryWorker))
    /\ WF_vars(MarkStepSucceeded(DeliveryWorker) \/ ExecutorFails(DeliveryWorker))
    /\ WF_vars(\E r \in RunIds : ApproveRun("A", r))

----------------------------------------------------------------------------
(* Claims C1-C8, checked under Spec *)

(* C1: once a run's status is SUCCEEDED, FAILED or CANCELED, no operation     *)
(* changes the run's status.                                                  *)
C1_TerminalRunNeverChanges ==
    [][\A r \in DOMAIN runs :
          runs[r].status \in TerminalRunStatuses => runs'[r].status = runs[r].status]_vars

(* C2: once a step's status is SUCCEEDED, no operation changes it.            *)
C2_SucceededStepNeverChanges ==
    [][\A x \in StepRows :
          steps[x[1]][x[2]].status = StepSuccess => steps'[x[1]][x[2]].status = StepSuccess]_vars

(* C3: whenever the claim query selects a step of a run, every step of that   *)
(* run at an earlier template position has status SUCCEEDED at that moment.   *)
C3_ClaimInTemplateOrder ==
    [][\A w \in Workers :
          (wpc[w] = "gated" /\ wpc'[w] = "locked") =>
              \A j \in StepIdx(wheld'[w].run) :
                  j < wheld'[w].step => steps[wheld'[w].run][j].status = StepSuccess]_vars

(* C4: the steps of a run have pairwise distinct created_at values that       *)
(* increase with template position.                                           *)
C4_CreatedAtFollowsPosition ==
    \A r \in DOMAIN runs : \A i, j \in StepIdx(r) :
        i < j => steps[r][i].created_at < steps[r][j].created_at

(* C5: when workers run claim transactions concurrently, a PENDING step is   *)
(* claimed by at most one of them: a step moves from PENDING to RUNNING only  *)
(* in a transition that appends exactly one STEP_CLAIMED event for it and     *)
(* adds one to its attempt counter, and every STEP_CLAIMED event that reports *)
(* the previous status PENDING is appended by such a transition.              *)
ClaimsPendingOnce ==
    /\ \A x \in StepRows :
          (steps[x[1]][x[2]].status = StepPending /\ steps'[x[1]][x[2]].status = StepRunning) =>
              (/\ events' = Append(events, ClaimedEvent(x[1], x[2], StepPending))
               /\ steps'[x[1]][x[2]].attempts = steps[x[1]][x[2]].attempts + 1)
    /\ (/\ Len(events') > Len(events)
        /\ events'[Len(events')].type = "STEP_CLAIMED"
        /\ events'[Len(events')].previous = StepPending) =>
              (/\ steps[events'[Len(events')].run_id][events'[Len(events')].step].status = StepPending
               /\ steps'[events'[Len(events')].run_id][events'[Len(events')].step].status = StepRunning)

C5_PendingClaimedOnce == [][ClaimsPendingOnce]_vars

(* C5's case: a claim transaction holds the lock on a PENDING step while the   *)
(* claim transaction of another worker is open.                               *)
C5_Witness ==
    \E w1, w2 \in Workers :
        /\ wpc[w1] = "locked"
        /\ wheld[w1].status = StepPending
        /\ wpc[w2] = "gated"

(* C6: every run has at most one step with status RUNNING.                    *)
C6_OneRunningStepPerRun ==
    \A r \in DOMAIN runs :
        Cardinality({i \in StepIdx(r) : steps[r][i].status = StepRunning}) <= 1

(* C7: a step whose immediately preceding step is not SUCCEEDED is neither    *)
(* RUNNING nor SUCCEEDED.                                                     *)
C7_PredecessorSucceeded ==
    \A r \in DOMAIN runs : \A i \in StepIdx(r) :
        (i > 1 /\ steps[r][i - 1].status # StepSuccess) =>
            steps[r][i].status \notin {StepRunning, StepSuccess}

StepClaimedEvents == {k \in DOMAIN events : events[k].type = "STEP_CLAIMED"}

(* C8: no STEP_CLAIMED event refers to an APPROVAL step, no claim holds one,  *)
(* and no APPROVAL step has status RUNNING.                                   *)
C8_ApprovalNeverClaimed ==
    /\ \A k \in StepClaimedEvents : steps[events[k].run_id][events[k].step].name # StepApproval
    /\ \A w \in Workers : wheld[w].name # StepApproval
    /\ \A x \in StepRows :
          steps[x[1]][x[2]].name = StepApproval => steps[x[1]][x[2]].status # StepRunning

(* C8's case: a claim query is about to run while a PENDING APPROVAL step      *)
(* passes every other condition of its WHERE clause.                          *)
C8_Witness ==
    \E w \in Workers : \E x \in StepRows :
        /\ wpc[w] = "gated"
        /\ steps[x[1]][x[2]].name = StepApproval
        /\ steps[x[1]][x[2]].status = StepPending
        /\ steps[x[1]][x[2]].next_run_at = NULL
        /\ runs[x[1]].status = RunRunning
        /\ runs[x[1]].api_key_id = wcfg[w].apiKeyID
        /\ ~SkipLocked(w, x[1], x[2])
        /\ ~ \E j \in StepIdx(x[1]) :
                /\ steps[x[1]][j].created_at < steps[x[1]][x[2]].created_at
                /\ steps[x[1]][j].status # StepSuccess

----------------------------------------------------------------------------
(* Claims C9-C10, checked under SpecCreate *)

RequestRows(tenant, key) ==
    {rr \in run_requests : rr.api_key_id = tenant /\ rr.idempotency_key = key}

CallsOf(tenant, key) == {c \in Calls : calls[c].tenant = tenant /\ calls[c].key = key}

(* C9: for every tenant and idempotency key at most one run and one           *)
(* run_requests binding exist, every call that returns a run id returns the   *)
(* id of that run, and no run is left behind by a call that did not create.   *)
C9_OneRunPerKey ==
    /\ \A t \in DOMAIN api_keys : \A k \in {calls[c].key : c \in Calls} \ {NoKey} :
          /\ Cardinality(RequestRows(t, k)) <= 1
          /\ Cardinality({c \in CallsOf(t, k) : calls[c].ret = "created"}) <= 1
          /\ \A c \in CallsOf(t, k) :
                (calls[c].pc = "done" /\ calls[c].ok) =>
                    /\ calls[c].run \in DOMAIN runs
                    /\ RequestRows(t, k) =
                         {[api_key_id |-> t, idempotency_key |-> k, run_id |-> calls[c].run]}
    /\ Cardinality(DOMAIN runs) = Cardinality({c \in Calls : calls[c].ret = "created"})

(* C9's case: two calls with one tenant and key raced; one created the run,    *)
(* the other hit the unique violation and returned.                           *)
C9_Witness ==
    \E c1, c2 \in Calls :
        /\ calls[c1].tenant = calls[c2].tenant
        /\ calls[c1].key = calls[c2].key
        /\ calls[c1].ret = "created"
        /\ calls[c2].ret = "winner"

(* C10: a call that loses the race for its idempotency key (the key is bound   *)
(* by the time its transaction runs) returns the winner's run, not an error;  *)
(* stated for calls whose own workflow template exists.                       *)
C10_LoserReturnsWinner ==
    [][\A c \in Calls :
          (/\ calls[c].pc = "tx"
           /\ calls'[c].pc = "done"
           /\ calls[c].key # NoKey
           /\ TemplateFound(calls[c].template)
           /\ RequestRuns(calls[c].tenant, calls[c].key) # {}) =>
              (/\ calls'[c].ok
               /\ calls'[c].run \in RequestRuns(calls[c].tenant, calls[c].key))]_vars

----------------------------------------------------------------------------
(* Claims C11-C12, checked under SpecTenant *)

(* A call of one of the five run-scoped repository operations by tenant t on r *)
RunScopedCall(t, r) ==
    GetRun(t, r) \/ ListSteps(t, r) \/ GetRunCost(t, r) \/ CancelRun(t, r) \/ ApproveRun(t, r)

(* The events of run r, in seq order *)
EventsOf(evs, r) == SelectSeq(evs, LAMBDA e : e.run_id = r)

(* C11: GetRun, ListSteps, GetRunCost, CancelRun and ApproveRun called by a    *)
(* tenant that does not own the run return the no-rows error and no value,    *)
(* the same as for a run id that does not exist, and leave runs, steps and    *)
(* events unchanged.                                                          *)
C11_WrongTenantNotFound ==
    [][\A t \in Tenants : \A r \in RunIds :
          (/\ ~(r \in DOMAIN runs /\ runs[r].api_key_id = t)
           /\ RunScopedCall(t, r)) =>
              (/\ resp'.err = ErrNoRows
               /\ resp'.body = <<>>
               /\ UNCHANGED <<runs, steps, events>>)]_vars

(* C11's case: CancelRun by the wrong tenant returned on a run that has a     *)
(* RUNNING step.                                                              *)
C11_Witness ==
    /\ resp.op = "CancelRun"
    /\ resp.run \in DOMAIN runs
    /\ runs[resp.run].api_key_id # resp.tenant
    /\ resp.err = ErrNoRows
    /\ \E i \in StepIdx(resp.run) : steps[resp.run][i].status = StepRunning

(* A step of worker w's tick *)
WorkerStep(w) ==
    ClaimGate(w) \/ ClaimSelect(w) \/ ClaimCommit(w) \/ MarkStepSucceeded(w) \/ MarkStepFailed(w)

(* C12: a worker never holds a step of a run of another tenant, and no step   *)
(* of its tick changes the runs, steps or events of another tenant.           *)
C12_WorkerStaysWithinTenant ==
    [][\A w \in Workers : WorkerStep(w) =>
          /\ wheld'[w].run # NoRun => runs[wheld'[w].run].api_key_id = wcfg[w].apiKeyID
          /\ \A r \in DOMAIN runs :
                runs[r].api_key_id # wcfg[w].apiKeyID =>
                    /\ runs'[r] = runs[r]
                    /\ steps'[r] = steps[r]
                    /\ EventsOf(events', r) = EventsOf(events, r)]_vars

(* C12's case: a worker's claim query runs while a run of another tenant has  *)
(* a PENDING executor step that is due.                                       *)
C12_Witness ==
    \E w \in Workers : \E r \in DOMAIN runs : \E i \in StepIdx(r) :
        /\ wpc[w] = "gated"
        /\ runs[r].api_key_id # wcfg[w].apiKeyID
        /\ runs[r].status \notin TerminalRunStatuses
        /\ steps[r][i].status = StepPending
        /\ steps[r][i].name \in Executors
        /\ (steps[r][i].next_run_at = NULL \/ steps[r][i].next_run_at <= now)

----------------------------------------------------------------------------
(* Claims C13-C15, checked under SpecCeiling *)

(* C13: for every tenant the number of its steps with status RUNNING is at    *)
(* most the tenant's concurrent-run ceiling.                                  *)
C13_RunningStepsWithinCeiling ==
    \A t \in DOMAIN api_keys : RunningSteps(t) <= MaxConcurrentRuns(t)

(* C14: for every tenant the number of its runs with status RUNNING or        *)
(* WAITING_APPROVAL is at most the tenant's concurrent-run ceiling.           *)
C14_ActiveRunsWithinCeiling ==
    \A t \in DOMAIN api_keys : ActiveRuns(t) <= MaxConcurrentRuns(t)

(* C15: for every tenant the number of its runs with status PENDING, RUNNING  *)
(* or WAITING_APPROVAL is at most the tenant's configured ceiling.            *)
C15_NonTerminalRunsWithinCeiling ==
    \A t \in DOMAIN api_keys :
        Cardinality({r \in DOMAIN runs :
            runs[r].api_key_id = t /\ runs[r].status \notin TerminalRunStatuses})
          <= MaxConcurrentRuns(t)

----------------------------------------------------------------------------
(* Claims C16, C17 and C19, checked under Spec *)

(* C16: a step's attempt counter never exceeds the workers' max_attempts.     *)
C16_AttemptsWithinMax ==
    \A x \in StepRows : \A w \in Workers :
        steps[x[1]][x[2]].attempts <= wcfg[w].maxAttempts

(* The retry-or-fail commit of worker w on the step it holds, which it finds  *)
(* with its attempt counter at or above w's max_attempts.                     *)
ExhaustedCommit(w, r, i) ==
    /\ wpc[w] = "exec" /\ wpc'[w] = "idle"
    /\ wheld[w].run = r /\ wheld[w].step = i
    /\ steps[r][i].attempts >= wcfg[w].maxAttempts

(* C17: a step becomes FAILED, and a run becomes FAILED, only in a            *)
(* retry-or-fail commit that finds the step's attempt counter at or above     *)
(* max_attempts; a retry-or-fail commit that finds it below max_attempts      *)
(* makes the step PENDING and leaves the run's status unchanged.              *)
C17_FailedOnlyWhenExhausted ==
    [][/\ \A x \in StepRows :
             (steps[x[1]][x[2]].status # StepFailed /\ steps'[x[1]][x[2]].status = StepFailed) =>
                 \E w \in Workers : ExhaustedCommit(w, x[1], x[2])
       /\ \A r \in DOMAIN runs :
             (runs[r].status # RunFailed /\ runs'[r].status = RunFailed) =>
                 \E w \in Workers : \E i \in StepIdx(r) :
                     ExhaustedCommit(w, r, i) /\ steps'[r][i].status = StepFailed
       /\ \A w \in Workers :
             (MarkStepFailed(w) /\ steps[wheld[w].run][wheld[w].step].attempts < wcfg[w].maxAttempts) =>
                 (/\ steps'[wheld[w].run][wheld[w].step].status = StepPending
                  /\ runs'[wheld[w].run].status = runs[wheld[w].run].status)]_vars

(* C17's case: a step failed below max_attempts and was retried, then failed  *)
(* at max_attempts: the step and its run are FAILED.                          *)
C17_Witness ==
    \E x \in StepRows :
        /\ steps[x[1]][x[2]].status = StepFailed
        /\ runs[x[1]].status = RunFailed
        /\ \E k \in DOMAIN events :
              events[k].type = "STEP_FAILED_RETRY" /\ events[k].run_id = x[1] /\ events[k].step = x[2]

(* Step x is PENDING with a retry deadline that lies in the future *)
BackingOff(x) ==
    /\ steps[x[1]][x[2]].status = StepPending
    /\ steps[x[1]][x[2]].next_run_at # NULL
    /\ steps[x[1]][x[2]].next_run_at > now

(* C19: while a step is PENDING with its retry deadline in the future, no     *)
(* claim selects it, and the claim transactions of ticking workers leave its  *)
(* status and attempt counter unchanged.                                      *)
C19_NotClaimedBeforeDeadline ==
    [][\A x \in StepRows : BackingOff(x) =>
          \A w \in Workers :
              /\ ~(wpc[w] = "locked" /\ wheld[w].run = x[1] /\ wheld[w].step = x[2])
              /\ ~(wpc'[w] = "locked" /\ wheld'[w].run = x[1] /\ wheld'[w].step = x[2])
              /\ (ClaimGate(w) \/ ClaimSelect(w) \/ ClaimCommit(w)) =>
                    (/\ steps'[x[1]][x[2]].status = StepPending
                     /\ steps'[x[1]][x[2]].attempts = steps[x[1]][x[2]].attempts)]_vars

(* C19's case: a worker's claim query runs while an executor step of a live   *)
(* run is PENDING with its retry deadline in the future.                      *)
C19_Witness ==
    \E w \in Workers : \E x \in StepRows :
        /\ wpc[w] = "gated"
        /\ BackingOff(x)
        /\ steps[x[1]][x[2]].name \in Executors
        /\ runs[x[1]].status \notin TerminalRunStatuses
        /\ runs[x[1]].api_key_id = wcfg[w].apiKeyID

----------------------------------------------------------------------------
(* Claim C18, checked under SpecRetry *)

(* base * 2^a, or the largest duration when the product is larger *)
SaturatedDelay(base, a) ==
    IF base * 2^a > maxDuration THEN maxDuration ELSE base * 2^a

(* C18: a retry-or-fail commit that finds the attempt counter a below         *)
(* max_attempts sets the step's retry deadline to now + base_delay * 2^a,     *)
(* the delay saturating at the largest duration: the deadline is after now    *)
(* and at most now + the largest duration.                                    *)
C18_RetryDeadlineBackoff ==
    [][\A w \in Workers :
          LET r == wheld[w].run
              i == wheld[w].step
          IN (MarkStepFailed(w) /\ steps[r][i].attempts < wcfg[w].maxAttempts) =>
                (/\ steps'[r][i].next_run_at =
                       now + SaturatedDelay(wcfg[w].retryBaseDelay, steps[r][i].attempts)
                 /\ steps'[r][i].next_run_at > now
                 /\ steps'[r][i].next_run_at <= now + maxDuration)]_vars

(* C18's case: a retry was scheduled with the delay saturated, after an       *)
(* earlier retry of the step with the delay below the largest duration.       *)
C18_Witness ==
    \E x \in StepRows :
        /\ steps[x[1]][x[2]].status = StepPending
        /\ steps[x[1]][x[2]].attempts = 2
        /\ steps[x[1]][x[2]].next_run_at >= maxDuration

----------------------------------------------------------------------------
(* Claim C20, checked under SpecReclaim *)

(* Step i of run 1 was left RUNNING with n attempts by the crashed worker and *)
(* its claimed-at is older than the live worker's reclaim window.             *)
AbandonedStale(i, n) ==
    /\ 1 \in DOMAIN runs
    /\ wpc[CrashingWorker] = "crashed"
    /\ wheld[CrashingWorker].run = 1 /\ wheld[CrashingWorker].step = i
    /\ steps[1][i].status = StepRunning
    /\ steps[1][i].attempts = n
    /\ steps[1][i].started_at # NULL
    /\ steps[1][i].started_at < now - wcfg[LiveWorker].reclaimAfter

(* Step i of run 1 has been claimed again since it had n attempts, or it is  *)
(* no longer RUNNING (another holder of the step committed its outcome), or   *)
(* the run has reached a terminal status and waits for no step.               *)
ReclaimedOrOver(i, n) ==
    /\ 1 \in DOMAIN runs
    /\ \/ steps[1][i].attempts > n
       \/ steps[1][i].status # StepRunning
       \/ runs[1].status \in TerminalRunStatuses

(* C20: a step left RUNNING by a crashed worker, once its claimed-at is older *)
(* than the reclaim window, is eventually claimed again by the live worker    *)
(* and its attempt counter incremented, unless the step or the run ends first.*)
C20_AbandonedStepReclaimed ==
    \A i \in 1..Len(DefaultTemplate) : \A n \in 1..MaxAttempts :
        AbandonedStale(i, n) ~> ReclaimedOrOver(i, n)

----------------------------------------------------------------------------
(* Claim C21, checked under SpecExec *)

(* Workers w1 and w2 are both executing the same step *)
ExecutingSameStep(w1, w2) ==
    /\ w1 # w2
    /\ wpc[w1] = "exec" /\ wpc[w2] = "exec"
    /\ wheld[w1].run = wheld[w2].run
    /\ wheld[w1].step = wheld[w2].step

(* C21: with every execution shorter than the reclaim window, no step is      *)
(* executed by two live workers at the same time.                             *)
C21_NoDoubleExecution ==
    \A w1, w2 \in Workers : ~ExecutingSameStep(w1, w2)

----------------------------------------------------------------------------
(* Claim C22, checked under SpecPriority *)

(* Step row y comes before step row x: its run has the higher priority, or the *)
(* same priority and y was created earlier.                                   *)
RanksAbove(y, x) ==
    \/ runs[y[1]].priority > runs[x[1]].priority
    \/ /\ runs[y[1]].priority = runs[x[1]].priority
       /\ steps[y[1]][y[2]].created_at < steps[x[1]][x[2]].created_at

(* The claim query of worker w returns step row x *)
Selects(w, x) ==
    /\ wpc[w] = "gated" /\ wpc'[w] = "locked"
    /\ wheld'[w].run = x[1] /\ wheld'[w].step = x[2]

----------------------------------------------------------------------------
(* Claims C23-C25, checked under Spec *)

(* Run r has an APPROVAL step with status WAITING_APPROVAL *)
ApprovalPending(r) ==
    /\ r \in DOMAIN runs
    /\ \E j \in StepIdx(r) :
          steps[r][j].name = StepApproval /\ steps[r][j].status = StepWaiting

(* The number of events of type ty of run r in evs *)
EventCount(evs, r, ty) ==
    Cardinality({k \in DOMAIN evs : evs[k].run_id = r /\ evs[k].type = ty})

(* C23: an ApproveRun call on a run that has no APPROVAL step in              *)
(* WAITING_APPROVAL, or that is terminal, changes no run and no step and      *)
(* appends no event; and no run ever has more than one STEP_APPROVED or more  *)
(* than one RUN_APPROVED event.                                               *)
C23_ApproveIdempotent ==
    [][/\ \A r \in RunIds :
             (/\ ApproveRun("A", r)
              /\ (~ApprovalPending(r) \/ runs[r].status \in TerminalRunStatuses)) =>
                 UNCHANGED <<runs, steps, events>>
       /\ \A r \in RunIds :
             /\ EventCount(events', r, "STEP_APPROVED") <= 1
             /\ EventCount(events', r, "RUN_APPROVED") <= 1]_vars

(* C23's case: an approve call returned without error on a run whose APPROVAL *)
(* step had not been opened, while a step of the run was RUNNING.             *)
C23_Witness ==
    /\ resp.op = "ApproveRun"
    /\ resp.err = ""
    /\ resp.run \in DOMAIN runs
    /\ \E j \in StepIdx(resp.run) :
          steps[resp.run][j].name = StepApproval /\ steps[resp.run][j].status = StepPending
    /\ \E j \in StepIdx(resp.run) : steps[resp.run][j].status = StepRunning

CancelCommitted(r) == EventCount(events, r, "RUN_CANCELED") > 0

(* C25: once the cancel of a run has committed, no STEP_CLAIMED event is      *)
(* appended for the run, no claim query selects a step of it and none of its  *)
(* steps becomes RUNNING.                                                     *)
C25_NoClaimAfterCancel ==
    [][\A r \in DOMAIN runs : CancelCommitted(r) =>
          /\ EventCount(events', r, "STEP_CLAIMED") = EventCount(events, r, "STEP_CLAIMED")
          /\ \A w \in Workers : ~(wpc[w] = "gated" /\ wpc'[w] = "locked" /\ wheld'[w].run = r)
          /\ \A j \in StepIdx(r) :
                steps'[r][j].status = StepRunning => steps[r][j].status = StepRunning]_vars

(* C25's case: a claim query runs after the cancel of a run committed and an  *)
(* in-flight retry commit made an executor step of the run PENDING again,     *)
(* with its retry deadline reached.                                           *)
C25_Witness ==
    \E w \in Workers : \E r \in DOMAIN runs : \E j \in StepIdx(r) :
        /\ wpc[w] = "gated"
        /\ CancelCommitted(r)
        /\ steps[r][j].status = StepPending
        /\ steps[r][j].name \in Executors
        /\ steps[r][j].next_run_at # NULL
        /\ steps[r][j].next_run_at <= now

----------------------------------------------------------------------------
(* Claims C26 and C28, checked under SpecDelivery *)

(* Run 1 has a webhook URL and has status st *)
TerminalWithHook(st) ==
    /\ 1 \in DOMAIN runs
    /\ runs[1].webhook_url # ""
    /\ runs[1].status = st

(* A POST carrying run r and status st has been sent *)
Sent(r, st) == \E k \in DOMAIN posts : posts[k].run = r /\ posts[k].status = st

(* C26: when the run, which has a webhook URL, has become SUCCEEDED or        *)
(* FAILED, a webhook carrying its id and that status is eventually sent.      *)
C26_TerminalWebhookSent ==
    \A st \in {RunSuccess, RunFailed} : TerminalWithHook(st) ~> Sent(1, st)

(* The POSTs are made in runs of attempts 1, 2, ..: an attempt after the      *)
(* first follows a POST of the same delivery that got no 2xx response, and    *)
(* no attempt has a number above 3.                                           *)
AttemptsInOrder ==
    \A k \in DOMAIN posts :
        /\ posts[k].attempt \in 1..3
        /\ posts[k].attempt > 1 =>
              /\ k > 1
              /\ posts[k - 1].attempt = posts[k].attempt - 1
              /\ posts[k - 1].run = posts[k].run
              /\ posts[k - 1].status = posts[k].status
              /\ posts[k - 1].code \notin 200..299

(* C28: one delivery makes at most 3 POST attempts, none after a 2xx          *)
(* response, and it ends.                                                     *)
C28_DeliveryBounded ==
    /\ []AttemptsInOrder
    /\ (wpc[DeliveryWorker] = "webhook") ~> (wpc[DeliveryWorker] # "webhook")

(* C28's case: a delivery made its third attempt after two failures, got no   *)
(* 2xx response and returned.                                                 *)
C28_Witness ==
    /\ Len(posts) = 3
    /\ posts[3].attempt = 3
    /\ posts[3].code \notin 200..299
    /\ wpc[DeliveryWorker] = "idle"

----------------------------------------------------------------------------
(* Claim C27, checked under SpecWebhook *)

(* Worker w's commit reports that run r has just become terminal and calls    *)
(* the delivery.                                                              *)
Triggers(w, r) ==
    /\ wpc[w] # "webhook" /\ wpc'[w] = "webhook"
    /\ whook'[w].run = r

(* C27: a commit reports that a run has just become terminal only if none     *)
(* did before: no POST was sent for the run and no delivery for it is under   *)
(* way.                                                                       *)
C27_TerminalReportedOnce ==
    [][\A w \in Workers : \A r \in DOMAIN runs :
          Triggers(w, r) =>
              /\ \A k \in DOMAIN posts : posts[k].run # r
              /\ \A o \in Workers : ~(wpc[o] = "webhook" /\ whook[o].run = r)]_vars

----------------------------------------------------------------------------
(* Claim C29, checked under Spec *)

OutcomeTypes == {"STEP_SUCCEEDED", "STEP_FAILED_RETRY", "STEP_FAILED"}

(* The number of events of the given types that step i of run r has among     *)
(* the first k events in seq order.                                           *)
EventsOfStep(k, r, i, types) ==
    Cardinality({j \in 1..k : /\ events[j].run_id = r
                              /\ events[j].step = i
                              /\ events[j].type \in types})

(* C29: in every prefix of the events in seq order, a step has at most as     *)
(* many outcome events (STEP_SUCCEEDED, STEP_FAILED_RETRY, STEP_FAILED) as    *)
(* STEP_CLAIMED events.                                                       *)
C29_OutcomeFollowsClaim ==
    \A x \in StepRows : \A k \in 0..Len(events) :
        EventsOfStep(k, x[1], x[2], OutcomeTypes)
            <= EventsOfStep(k, x[1], x[2], {"STEP_CLAIMED"})

(* C29's case: a step that was claimed twice and has two outcome events, one  *)
(* of them a retry.                                                           *)
C29_Witness ==
    \E x \in StepRows :
        /\ EventsOfStep(Len(events), x[1], x[2], {"STEP_CLAIMED"}) = 2
        /\ EventsOfStep(Len(events), x[1], x[2], OutcomeTypes) = 2
        /\ EventsOfStep(Len(events), x[1], x[2], {"STEP_FAILED_RETRY"}) >= 1

----------------------------------------------------------------------------
(* Claim C30, checked under SpecStream *)

(* The seqs the connection has written. *)
Written == {stream.sent[k] : k \in DOMAIN stream.sent}

(* C30: the connection writes every committed event of the run, each once and *)
(* in ascending seq order.  What it writes is in strictly ascending order,    *)
(* and no committed event of the run is at or behind the cursor without       *)
(* having been written: the handler only lists events beyond its cursor, so   *)
(* such an event would never be written.                                      *)
C30_StreamComplete ==
    /\ \A j, k \in DOMAIN stream.sent : j < k => stream.sent[j] < stream.sent[k]
    /\ \A k \in DOMAIN events :
          (events[k].run_id = StreamRun /\ k \notin Uncommitted /\ k <= stream.cursor)
              => k \in Written

----------------------------------------------------------------------------
(* Claim C31, checked under SpecSuccess *)

(* The type and the step of the events of run r, in seq order. *)
RECURSIVE EventTrace(_, _)
EventTrace(evs, r) ==
    IF evs = <<>> THEN <<>>
    ELSE (IF Head(evs).run_id = r THEN << <<Head(evs).type, Head(evs).step>> >> ELSE <<>>)
         \o EventTrace(Tail(evs), r)

(* The events of the seeded template's run: LLM is step 1, TOOL step 2 and    *)
(* APPROVAL step 3.                                                           *)
SuccessTrace ==
    << <<"STEP_CLAIMED", 1>>, <<"STEP_SUCCEEDED", 1>>,
       <<"STEP_CLAIMED", 2>>, <<"STEP_SUCCEEDED", 2>>,
       <<"STEP_WAITING_APPROVAL", 3>>,
       <<"STEP_APPROVED", 3>>, <<"RUN_APPROVED", NoStep>> >>

(* C31: with one worker whose executors succeed, when the approval step waits *)
(* LLM and TOOL are SUCCEEDED and the run is not terminal, and once the run   *)
(* is SUCCEEDED its events are exactly STEP_CLAIMED(LLM), STEP_SUCCEEDED(LLM),*)
(* STEP_CLAIMED(TOOL), STEP_SUCCEEDED(TOOL), STEP_WAITING_APPROVAL,           *)
(* STEP_APPROVED, RUN_APPROVED.                                               *)
C31_SuccessPath ==
    \A r \in DOMAIN runs :
        /\ steps[r][3].status = StepWaiting =>
              /\ steps[r][1].status = StepSuccess
              /\ steps[r][2].status = StepSuccess
              /\ runs[r].status \notin TerminalRunStatuses
        /\ runs[r].status = RunSuccess => EventTrace(events, r) = SuccessTrace

----------------------------------------------------------------------------
(* Claim C32, checked under Spec *)

RECURSIVE SumCosts(_)
SumCosts(rows) ==
    IF rows = <<>> THEN 0 ELSE Head(rows).cost_usd + SumCosts(Tail(rows))

(* C32: a run's total_cost_usd equals the sum of the cost_usd of its steps.   *)
C32_TotalIsSumOfSteps ==
    \A r \in DOMAIN runs : runs[r].total_cost_usd = SumCosts(steps[r])

----------------------------------------------------------------------------
(* Claim C33, checked under SpecTemplate *)

(* C33: when the worker holds a claimed step that has no registered executor, *)
(* the commit that ends its cycle leaves the step FAILED and the run FAILED.  *)
C33_MissingExecutorFailsAtOnce ==
    [][\A w \in Workers :
          (wpc[w] = "exec" /\ wheld[w].name \notin wcfg[w].executors /\ wpc'[w] # "exec")
              => /\ steps'[wheld[w].run][wheld[w].step].status = StepFailed
                 /\ runs'[wheld[w].run].status = RunFailed]_vars

----------------------------------------------------------------------------
(* Claim C34, checked under SpecTimeout *)

(* The timeout an execution of worker w's step runs under: the stored timeout *)
(* when positive, else the worker's default.                                  *)
TimeoutOfHeld(w) ==
    LET stored == steps[wheld[w].run][wheld[w].step].timeout_seconds
    IN IF stored # NULL /\ stored > 0 THEN stored ELSE wcfg[w].defaultStepTimeout

----------------------------------------------------------------------------
(* Claim C35, checked under SpecAbort *)

(* C35: a CreateRun call that returns an error leaves runs, steps,            *)
(* run_requests and events as they were.                                      *)
C35_FailedCreateLeavesNothing ==
    [][\A c \in Calls :
          (calls[c].pc # "done" /\ calls'[c].pc = "done" /\ ~calls'[c].ok)
              => UNCHANGED <<runs, steps, events, run_requests>>]_vars

(* C35's case: one call failed on the tenant's limit and one on a storage     *)
(* error after the run and its steps were inserted; the store holds only the  *)
(* run that made the tenant reach its limit, and no binding.                  *)
C35_Witness ==
    /\ \E c \in Calls : calls[c].pc = "done" /\ calls[c].err = ErrMaxConcurrentRunsExceeded
    /\ \E c \in Calls : calls[c].pc = "done" /\ calls[c].err = ErrStorage /\ calls[c].failed_at = 6
    /\ Cardinality(DOMAIN runs) = 1
    /\ run_requests = {}

----------------------------------------------------------------------------
(* Claim C36, checked under SpecMigrate *)

(* C36: no migration is applied twice, the migrations are applied in the      *)
(* lexicographic order of their filenames, and a call of EnsureSchema that    *)
(* got the lock on a bootstrapped store applies no migration and returns no   *)
(* error.                                                                     *)
C36_MigrationsOnceInOrder ==
    /\ \A j, k \in DOMAIN schema.log : j < k => NameLess(schema.log[j], schema.log[k])
    /\ \A p \in BootProc :
          schema.procs[p].bootstrapped =>
              schema.procs[p].applied = 0 /\ ~schema.procs[p].err

(* C36's case: one process failed on the second migration after applying the *)
(* first, the other then applied the remaining two, and the first process ran *)
(* again on the bootstrapped store and returned.                              *)
C36_Witness ==
    /\ Len(schema.log) = 3
    /\ \E p, q \in BootProc :
          /\ p # q
          /\ schema.procs[q].pc = "returned" /\ schema.procs[q].applied = 2
          /\ schema.procs[p].pc = "returned" /\ schema.procs[p].runs = 2
          /\ schema.procs[p].bootstrapped

----------------------------------------------------------------------------
(* Claim C37, checked under SpecCreate *)

(* The runs bound to the tenant's idempotency key. *)
BoundRuns(tenant, key) ==
    {x.run_id : x \in {y \in run_requests : y.api_key_id = tenant /\ y.idempotency_key = key}}

(* The tenant's runs that count against its ceiling, and the ceiling. *)
AtCeiling(tenant) ==
    Cardinality({r \in DOMAIN runs : runs[r].api_key_id = tenant
                                      /\ runs[r].status \in {RunRunning, RunWaiting}})
        >= api_keys[tenant].max_concurrent_runs

(* C37: a CreateRun call whose idempotency key is bound to a run when the     *)
(* call is made returns that run without error, whether or not the tenant is  *)
(* at its ceiling, and inserts no run, step or binding.                       *)
C37_BoundKeyReturnsRun ==
    [][\A c \in Calls :
          (/\ calls[c].pc = "new" /\ calls'[c].pc # "new"
           /\ calls'[c].key # NoKey
           /\ BoundRuns(calls'[c].tenant, calls'[c].key) # {})
              => /\ calls'[c].pc = "done"
                 /\ calls'[c].ok
                 /\ calls'[c].run \in BoundRuns(calls'[c].tenant, calls'[c].key)
                 /\ UNCHANGED <<runs, steps, run_requests, events>>]_vars

(* C37's case: the tenant is at its ceiling with the run its key is bound to, *)
(* a call without key was refused for the limit and a call with the key       *)
(* returned the bound run.                                                    *)
C37_Witness ==
    \E c, d \in Calls :
        /\ calls[c].pc = "done" /\ calls[c].ret = "found" /\ calls[c].ok
        /\ calls[c].run \in BoundRuns(calls[c].tenant, calls[c].key)
        /\ AtCeiling(calls[c].tenant)
        /\ calls[d].pc = "done" /\ calls[d].tenant = calls[c].tenant
        /\ calls[d].err = ErrMaxConcurrentRunsExceeded

----------------------------------------------------------------------------
(* Claim C38, checked under SpecStale *)

(* C38: a run with status SUCCEEDED has all its steps in status SUCCEEDED.    *)
C38_SucceededRunHasSucceededSteps ==
    \A r \in DOMAIN runs :
        runs[r].status = RunSuccess =>
            \A i \in StepIdx(r) : steps[r][i].status = StepSuccess

----------------------------------------------------------------------------
(* Claim C39, checked under SpecLive *)

(* C39: with a worker that keeps polling and does not crash, executors that   *)
(* return, and the approve call made once the approval step waits, a run of   *)
(* the default template that is not canceled reaches SUCCEEDED or FAILED.     *)
C39_RunReachesTerminal ==
    (1 \in DOMAIN runs) ~>
        (1 \in DOMAIN runs /\ runs[1].status \in {RunSuccess, RunFailed})

(* The run finished SUCCEEDED after a step of it had failed and was retried. *)
C39_Witness ==
    /\ 1 \in DOMAIN runs
    /\ runs[1].status = RunSuccess
    /\ \E k \in DOMAIN events : events[k].type = "STEP_FAILED_RETRY"
    /\ \E k \in DOMAIN events : events[k].type = "RUN_APPROVED"

----------------------------------------------------------------------------
(* Claim C40, checked under SpecTemplate *)

(* C40: once every step before an APPROVAL step has SUCCEEDED, that APPROVAL  *)
(* step moves to WAITING_APPROVAL (from where an approval makes it            *)
(* SUCCEEDED), whatever the template, also when no TOOL step precedes it.     *)
C40_ApprovalOpens ==
    \A i \in 1..3 :
        (/\ 1 \in DOMAIN runs
         /\ i \in DOMAIN steps[1]
         /\ steps[1][i].name = StepApproval
         /\ \A j \in 1..(i - 1) : steps[1][j].status = StepSuccess)
        ~> (/\ 1 \in DOMAIN runs
            /\ i \in DOMAIN steps[1]
            /\ steps[1][i].status \in {StepWaiting, StepSuccess})

====
